---- MODULE Spec2Model ----
(***************************************************************************)
(* A model of go-sq-decoder: the FFT Hilbert transformer (pkg/sqmath), the *)
(* SQ decoder (internal/decoder) and the SQ encoder (internal/encoder).    *)
(*                                                                         *)
(* float64 values are represented in fixed point, in thousandths: the      *)
(* integer 1000 stands for 1.0.  Go slices are 0-based, TLA+ sequences are *)
(* 1-based: Go index k is sequence index k + 1.                            *)
(***************************************************************************)
EXTENDS Integers, Sequences, FiniteSets, TLC

\* ------------------------------------------------------------------ bounds
\* largest block size a constructor is called with
MaxBlock == 8
\* longest channel handed to Process
MaxLen == 10
\* largest number of channels handed to Process
MaxCh == 5
\* Process / ProcessBlock calls made on one instance
MaxCalls == 2
\* samples steered one after the other
MaxSteer == 2
\* frames (one sample per channel) of the audio data written to a file
MaxFrames == 2

\* ------------------------------------------------------------- arithmetic
\* 1.0 in fixed point
FixOne == 10 ^ 3

\* Go's integer division: truncation toward zero (b > 0)
GoDiv(a, b) ==
    IF a >= 0 THEN a \div b ELSE -((-a) \div b)

\* a fixed-point quotient, rounded toward zero
FixDiv(a, b) ==
    GoDiv(a, b)

\* the product of two fixed-point values
FixMul(a, b) ==
    FixDiv(a * b, FixOne)

\* math.Pi
Pi == 3142

\* 1000 * cos(2*pi*i/m), row m, column i + 1, for 0 <= i < m
CosTable ==
    << <<1000>>,
       <<1000, -1000>>,
       <<1000, -500, -500>>,
       <<1000, 0, -1000, 0>>,
       <<1000, 309, -809, -809, 309>>,
       <<1000, 500, -500, -1000, -500, 500>>,
       <<1000, 623, -223, -901, -901, -223, 623>>,
       <<1000, 707, 0, -707, -1000, -707, 0, 707>>,
       <<1000, 766, 174, -500, -940, -940, -500, 174, 766>>,
       <<1000, 809, 309, -309, -809, -1000, -809, -309, 309, 809>>,
       <<1000, 841, 415, -142, -655, -959, -959, -655, -142, 415, 841>>,
       <<1000, 866, 500, 0, -500, -866, -1000, -866, -500, 0, 500, 866>> >>

\* math.Cos(2.0*math.Pi*float64(i)/float64(m)), m >= 1, i >= 0
Cos2Pi(i, m) ==
    CosTable[m][(i % m) + 1]

\* a slice of n zeros: make([]float64, n)
Zeros(n) ==
    [i \in 1..n |-> 0]

\* ------------------------------------------ float64 beyond the fixed point
\* The values of float64 that no fixed-point number stands for are integers
\* outside the range of the fixed-point values: the infinities (PosInf and
\* -PosInf), NaN, and Huge (with -Huge): any finite magnitude from 2^512 on,
\* whose square is beyond the largest float64.  Tiny is a sample of 1e-7, not zero
\* but with a square below a millionth and below logicEpsilon, and TinyScaled is
\* what a factor other than 1 makes of it.  Large is a sample of 1.2e154: its
\* square, BigEnergy, is finite and above every energy in millionths, the square
\* of LargeBoosted, Large times a gain above 1, is beyond the largest float64, and
\* LargeCut is Large times a gain below 1.
PosInf == 2 ^ 30

NaN == 2 ^ 30 + 1

Huge == 2 ^ 29

Tiny == 2 ^ 28

TinyScaled == 2 ^ 28 + 1

IsTiny(v) ==
    v = Tiny \/ v = TinyScaled

Large == 2 ^ 27

LargeBoosted == 2 ^ 27 + 1

LargeCut == 2 ^ 27 + 2

BigEnergy == 2 ^ 26

IsLarge(v) ==
    v \in {Large, LargeBoosted, LargeCut}

\* math.IsNaN(v)
IsNaN(v) ==
    v = NaN

\* math.IsInf(v, 0)
IsInf(v) ==
    v = PosInf \/ v = -PosInf

IsHuge(v) ==
    v = Huge \/ v = -Huge

\* a > b, false when either side is NaN
FGt(a, b) ==
    ~IsNaN(a) /\ ~IsNaN(b) /\ a > b

\* a < b, false when either side is NaN
FLt(a, b) ==
    ~IsNaN(a) /\ ~IsNaN(b) /\ a < b

\* a <= b, false when either side is NaN
FLe(a, b) ==
    ~IsNaN(a) /\ ~IsNaN(b) /\ a <= b

\* a + b for a, b that are not negative
FAdd(a, b) ==
    IF IsNaN(a) \/ IsNaN(b) THEN NaN
    ELSE IF a = PosInf \/ b = PosInf THEN PosInf
    ELSE IF a = BigEnergy \/ b = BigEnergy THEN BigEnergy
    ELSE a + b

\* x * x, in millionths (the square of thousandths): the unit of the energies
FSquare(x) ==
    IF IsNaN(x) THEN NaN
    ELSE IF IsInf(x) \/ IsHuge(x) THEN PosInf
    ELSE IF x = LargeBoosted THEN PosInf
    ELSE IF IsLarge(x) THEN BigEnergy
    ELSE IF IsTiny(x) THEN 0
    ELSE x * x

\* x * g for a sample x and a factor g (a gain or the scale)
FMul(x, g) ==
    IF IsTiny(x) THEN (IF g = FixOne THEN x ELSE TinyScaled)
    ELSE IF IsLarge(x)
    THEN (IF g = 0 THEN 0
          ELSE IF g = FixOne THEN x
          ELSE IF g > FixOne THEN LargeBoosted
          ELSE LargeCut)
    ELSE FixMul(x, g)

\* c * e for a fixed-point c >= 0 and an energy e >= 0, rounded toward zero; the
\* product is taken in two parts to stay within the integers of the checker
FScale(c, e) ==
    IF IsNaN(e) THEN NaN
    ELSE IF e = PosInf THEN (IF c = 0 THEN NaN ELSE PosInf)
    ELSE IF e = BigEnergy THEN (IF c = 0 THEN 0 ELSE BigEnergy)
    ELSE (e \div FixOne) * c + ((e % FixOne) * c) \div FixOne

\* long division: k more decimal digits of a quotient q with remainder r
RECURSIVE LongDiv(_, _, _, _)
LongDiv(q, r, b, k) ==
    IF k = 0 THEN q
    ELSE LongDiv(10 * q + (10 * r) \div b, (10 * r) % b, b, k - 1)

\* the fixed-point quotient a / b of two energies, a >= 0, b > 0, rounded toward zero
FixQuot(a, b) ==
    LongDiv(a \div b, a % b, b, 3)

\* the quotient a / b of two energies that are numbers, b > 0: 0 for an infinite
\* b, 1 for two energies near the top of the range of float64
FQuot(a, b) ==
    IF b = PosInf THEN 0
    ELSE IF b = BigEnergy THEN (IF a = BigEnergy THEN FixOne ELSE 0)
    ELSE FixQuot(a, b)

\* the largest s in lo..hi with s * s <= v
RECURSIVE SqrtSearch(_, _, _)
SqrtSearch(v, lo, hi) ==
    IF lo >= hi THEN lo
    ELSE LET mid == (lo + hi + 1) \div 2
         IN  IF mid * mid <= v THEN SqrtSearch(v, mid, hi)
             ELSE SqrtSearch(v, lo, mid - 1)

\* math.Sqrt of a fixed-point v >= 0, rounded toward zero
FixSqrt(v) ==
    SqrtSearch(v * FixOne, 0, 32768)

\* ---------------------------------------------------------------- windows
WindowTypes == {"hann", "hanning", "hamming", "blackman", "rect"}

hannWindow(size) ==
    IF size <= 1 THEN [i \in 1..size |-> FixOne]
    ELSE [i \in 1..size |-> FixMul(500, FixOne - Cos2Pi(i - 1, size - 1))]

hammingWindow(size) ==
    IF size <= 1 THEN [i \in 1..size |-> FixOne]
    ELSE [i \in 1..size |-> 540 - FixMul(460, Cos2Pi(i - 1, size - 1))]

blackmanWindow(size) ==
    IF size <= 1 THEN [i \in 1..size |-> FixOne]
    ELSE [i \in 1..size |->
            420 - FixMul(500, Cos2Pi(i - 1, size - 1))
                + FixMul(80, Cos2Pi(2 * (i - 1), size - 1))]

rectangularWindow(size) ==
    [i \in 1..size |-> FixOne]

\* makeWindow panics ("unknown window type") outside WindowTypes
makeWindow(windowType, size) ==
    CASE windowType \in {"hann", "hanning"} -> hannWindow(size)
      [] windowType = "hamming" -> hammingWindow(size)
      [] windowType = "blackman" -> blackmanWindow(size)
      [] windowType = "rect" -> rectangularWindow(size)

\* ---------------------------------------------------- Hilbert transformer
\* 2.0 / (math.Pi * float64(i)), i > 0
TwoOverPi(i) ==
    FixDiv(2 * FixOne * FixOne, Pi * i)

\* the gain applied to the windowed footprint ("Scale by 1.8")
FilterGain == 1800

IsPowerOfTwo(n) ==
    \E k \in 0..n : 2 ^ k = n

\* algofft.NewPlan64(n): the values "err != nil" can take.  The plan is made by
\* the FFT library; for a power of two it succeeds, for any other size the outcome
\* is the library's.
NewPlan64Err(n) ==
    IF IsPowerOfTwo(n) THEN {FALSE} ELSE BOOLEAN

\* the loop without the parity test: every offset from 1 on is written
RECURSIVE ImpulseLoop_EveryOffset(_, _, _)
ImpulseLoop_EveryOffset(i, center, impulse) ==
    IF i >= center THEN impulse
    ELSE IF i >= 1
         THEN ImpulseLoop_EveryOffset(i + 1, center,
                  [impulse EXCEPT ![center + i + 1] = TwoOverPi(i),
                                  ![center - i + 1] = -TwoOverPi(i)])
         ELSE ImpulseLoop_EveryOffset(i + 1, center, impulse)

\* the first loop of makeFilter, from index i on
RECURSIVE ImpulseLoop(_, _, _)
ImpulseLoop(i, center, impulse) ==
    IF i >= center THEN impulse
    ELSE IF i % 2 = 1
         THEN ImpulseLoop(i + 1, center,
                  [impulse EXCEPT ![center + i + 1] = TwoOverPi(i),
                                  ![center - i + 1] = -TwoOverPi(i)])
         ELSE ImpulseLoop(i + 1, center, impulse)

\* the impulse response before the window and the gain
RawImpulse(bs, ov) ==
    ImpulseLoop(0, GoDiv(ov, 2), Zeros(bs))

\* makeFilter runs into a runtime panic: a negative window size (makeslice), or
\* an index of impulse at or beyond blockSize
makeFilterPanics(bs, ov) ==
    \/ ov < 0
    \/ \E i \in 0..(GoDiv(ov, 2) - 1) : i % 2 = 1 /\ GoDiv(ov, 2) + i >= bs
    \/ ov > bs

\* the impulse response makeFilter transforms: windowed and scaled over [0, overlap)
makeFilter(bs, ov, windowType) ==
    LET impulse == RawImpulse(bs, ov)
        w == makeWindow(windowType, ov)
    IN  [k \in 1..bs |->
            IF k <= ov THEN FixMul(FixMul(impulse[k], w[k]), FilterGain)
            ELSE impulse[k]]

\* a check that rejects only the longer blocks
ProcessBlockPanics_OnlyLonger(bs, in) ==
    Len(in) > bs

\* ProcessBlock's precondition check: panic("input size must match block size")
ProcessBlockPanics(bs, in) ==
    Len(in) # bs

\* sum over k in kk..bs-1 of h[k] * x[(n - k) mod bs]  (0-based n, k)
RECURSIVE ConvSum(_, _, _, _, _)
ConvSum(bs, h, x, n, kk) ==
    IF kk >= bs THEN 0
    ELSE h[kk + 1] * x[((n - kk) % bs) + 1] + ConvSum(bs, h, x, n, kk + 1)

\* the rescaling added instead of multiplied: real(timeDomain[i]) + scale
ProcessBlock_AddsScale(bs, h, in) ==
    LET inputComplex == [i \in 1..bs |-> IF i <= Len(in) THEN in[i] ELSE 0]
        timeDomain == [n \in 1..bs |-> bs * ConvSum(bs, h, inputComplex, n - 1, 0)]
    IN  [n \in 1..bs |-> FixDiv(timeDomain[n], FixOne) + FixDiv(FixOne, bs)]

\* ProcessBlock past its check.  Forward FFT, bin-wise product with the transfer
\* function and inverse FFT are, by the convolution theorem, the circular
\* convolution of the zero-padded input with the impulse response whose transform
\* transferFn is; the plan's inverse is taken to be unnormalised (the library is
\* not part of the repository) and the code rescales by 1.0/fftSize.
ProcessBlock(bs, h, in) ==
    LET inputComplex == [i \in 1..bs |-> IF i <= Len(in) THEN in[i] ELSE 0]
        timeDomain == [n \in 1..bs |-> bs * ConvSum(bs, h, inputComplex, n - 1, 0)]
    IN  [n \in 1..bs |-> FixDiv(FixDiv(timeDomain[n], bs), FixOne)]

\* -------------------------------------------------------------- the state
VARIABLES
    pc,            \* "new", "idle", "hop", "returned" or "panicked"; "steer": in the
                   \* inner loop of Process, at the steering stage; "write": in the
                   \* sample loop of a WAV writer
    kind,          \* "none", "decoder", "encoder" or "hilbert": the instance built
    blockSize,     \* the instance's blockSize
    overlap,       \* the instance's overlap
    initialDelay,  \* SQDecoder.initialDelay / SQEncoder.initialDelay
    windowType,    \* HilbertTransformer.windowType
    window,        \* HilbertTransformer.window
    transferFn,    \* HilbertTransformer.transferFn, as the impulse response it transforms
    input,         \* the caller's buffers handed to the call in progress
    numSamples,    \* Process: numSamples
    numBlocks,     \* Process: numBlocks
    blockIdx,      \* Process: blockIdx, the hop about to run
    output,        \* Process: output
    ret,           \* the value the last call returned (Nil: nothing)
    err,           \* whether the last call returned a non-nil error
    calls,         \* calls completed on the instance
    latency,       \* <<v, c>>: GetLatency, the last operation, returned v after c calls
    writes,        \* writes[n + 1]: how often output index n was assigned
    hopWritten,    \* the output indices the last hop assigned
    logicConfig,   \* SQDecoder.logicConfig (Nil: not a decoder)
    sampleRate,    \* SQDecoder.sampleRate
    attackCoeff,   \* SQDecoder.attackCoeff
    releaseCoeff,  \* SQDecoder.releaseCoeff
    logicEnv,      \* SQDecoder.logicEnv, in millionths
    steer,         \* the applyLogicSteering calls of the last hop: <<[in, out, env], ...>>
    file,          \* the sample values written to the WAV file, interleaved
    result,        \* the SeparationResult returned (Nil: nothing)
    isolated,      \* runAnalyze: the buffers of the round trip under way (Nil: none)
    currentFile,   \* app.js: currentFile (0: null)
    outputUrl,     \* app.js: outputUrl (0: null)
    wasmReady,     \* app.js: wasmReady
    wasmLoading,   \* ensureWasm is awaiting the module
    convertDisabled, \* convertButton.disabled
    linkHidden,    \* downloadLink has the class "hidden"
    linkHref,      \* downloadLink.href (0: none)
    linkDownload,  \* downloadLink.download
    statusText,    \* statusText.textContent
    progressActive, \* progress is shown
    pending,       \* the decodeFile calls awaiting arrayBuffer(): the file each reads
    urls           \* the object URLs created: the file whose decode each holds, 0 once revoked

webVars ==
    <<currentFile, outputUrl, wasmReady, wasmLoading, convertDisabled, linkHidden,
      linkHref, linkDownload, statusText, progressActive, pending, urls>>

vars ==
    <<pc, kind, blockSize, overlap, initialDelay, windowType, window, transferFn,
      input, numSamples, numBlocks, blockIdx, output, ret, err, calls, latency,
      writes, hopWritten, logicConfig, sampleRate, attackCoeff, releaseCoeff,
      logicEnv, steer, file, result, isolated, webVars>>

instanceVars ==
    <<kind, blockSize, overlap, initialDelay, windowType, window, transferFn,
      logicConfig, sampleRate, attackCoeff, releaseCoeff>>

\* the steering state, and what the tools around the core write
sideVars ==
    <<logicEnv, steer, file, result, isolated, webVars>>

callVars ==
    <<input, numSamples, numBlocks, blockIdx, output, ret, err, writes, hopWritten>>

\* a nil slice
Nil == << >>

\* the page once the script has run to its first await: no file, no output, the
\* button disabled and the link hidden by the markup, ensureWasm() loading the
\* module
WebInit ==
    /\ currentFile = 0
    /\ outputUrl = 0
    /\ wasmReady = FALSE
    /\ wasmLoading = TRUE
    /\ convertDisabled = TRUE
    /\ linkHidden = TRUE
    /\ linkHref = 0
    /\ linkDownload = << >>
    /\ statusText = ""
    /\ progressActive = TRUE
    /\ pending = << >>
    /\ urls = << >>

\* ------------------------------------------------------------- the inputs
Patterns == {"zero", "ramp", "front"}

\* sample n (1-based) of channel c (1-based): "ramp" gives every sample of every
\* channel its own non-zero value, of alternating sign; "front" is "ramp" with
\* silent channels from the third on, "right" is "ramp" on the second channel only
PatSample(p, c, n) ==
    CASE p = "zero" -> 0
      [] p = "ramp" -> (IF n % 2 = 1 THEN 1 ELSE -1) * (60 * n + 7 * c)
      [] p = "front" -> IF c <= 2 THEN (IF n % 2 = 1 THEN 1 ELSE -1) * (60 * n + 7 * c)
                        ELSE 0
      [] p = "right" -> IF c = 2 THEN (IF n % 2 = 1 THEN 1 ELSE -1) * (60 * n + 7 * c)
                        ELSE 0

\* nch channels of length len, but channel j (if any) of length len + d
MkInput(p, nch, len, j, d) ==
    [c \in 1..nch |->
        [n \in 1..(IF c = j THEN len + d ELSE len) |-> PatSample(p, c, n)]]

\* the buffers a caller hands to Process: channels of one length, or one
\* channel a sample shorter or longer than the others
Inputs ==
    {MkInput(p, nch, len, 0, 0) : p \in Patterns, nch \in 0..MaxCh, len \in 0..MaxLen}
    \cup
    {MkInput("ramp", q[1], q[2], q[3], q[4]) :
        q \in {r \in (1..MaxCh) \X (0..MaxLen) \X (1..MaxCh) \X {-1, 1} :
                  r[3] <= r[1] /\ r[2] + r[4] >= 0}}

\* the blocks a caller hands to ProcessBlock
Blocks ==
    {[n \in 1..len |-> PatSample(p, 1, n)] : p \in {"zero", "ramp"}, len \in 0..(MaxBlock + 1)}

\* the (blockSize, overlap) pairs a caller constructs with
BlockSizes == 1..MaxBlock
Overlaps(bs) == (-1)..(bs + 1)

Init ==
    /\ pc = "new"
    /\ kind = "none"
    /\ blockSize = 0
    /\ overlap = 0
    /\ initialDelay = 0
    /\ windowType = ""
    /\ window = << >>
    /\ transferFn = << >>
    /\ input = Nil
    /\ numSamples = 0
    /\ numBlocks = 0
    /\ blockIdx = 0
    /\ output = Nil
    /\ ret = Nil
    /\ err = FALSE
    /\ calls = 0
    /\ latency = << >>
    /\ writes = << >>
    /\ hopWritten = {}
    /\ logicConfig = << >>
    /\ sampleRate = 0
    /\ attackCoeff = 0
    /\ releaseCoeff = 0
    /\ logicEnv = << >>
    /\ steer = << >>
    /\ file = << >>
    /\ result = << >>
    /\ isolated = << >>
    /\ WebInit

\* ----------------------------------------------- the decoder: logic steering
\* logicEpsilon = 1e-12, in millionths: a millionth of the unit of the energies,
\* so an energy exceeds it exactly when it exceeds 0
logicEpsilon == 0

\* a default configuration with steering switched on
DefaultLogicSteeringConfig_Enabled ==
    [Enabled |-> TRUE, AttackTime |-> 10, ReleaseTime |-> 200,
     DominanceThreshold |-> 550, MaxBoost |-> 1600, MinGain |-> 400]

DefaultLogicSteeringConfig ==
    [Enabled |-> FALSE, AttackTime |-> 10, ReleaseTime |-> 200,
     DominanceThreshold |-> 550, MaxBoost |-> 1600, MinGain |-> 400]

\* math.Exp(-1.0 / p) for the products p = seconds * sampleRate of the model
ExpNegInv(p) ==
    CASE p = 1 -> 367
      [] p = 20 -> 951
      [] p = 441 -> 997
      [] p = 8820 -> 999

timeToCoeff(seconds, rate) ==
    IF seconds <= 0 \/ rate <= 0 THEN 0
    ELSE ExpNegInv((seconds * rate) \div FixOne)

\* energies := [4]float64{lf * lf, rf * rf, lb * lb, rb * rb}
Energies(x) ==
    [i \in 1..4 |-> FSquare(x[i])]

\* the envelope after the first loop of applyLogicSteering
EnvUpdate(env, x) ==
    [i \in 1..4 |->
        LET energy == Energies(x)[i]
            coeff == IF FGt(energy, env[i]) THEN attackCoeff ELSE releaseCoeff
        IN  FAdd(FScale(coeff, env[i]), FScale(FixOne - coeff, energy))]

\* a loop that moves on to a later channel also when it only equals the maximum
RECURSIVE MaxLoop_LastWins(_, _, _, _)
MaxLoop_LastWins(i, env, maxIdx, maxVal) ==
    IF i >= 4 THEN <<maxIdx, maxVal>>
    ELSE IF FLe(maxVal, env[i + 1]) THEN MaxLoop_LastWins(i + 1, env, i, env[i + 1])
    ELSE MaxLoop_LastWins(i + 1, env, maxIdx, maxVal)

\* the second loop of applyLogicSteering from index i on: <<maxIdx, maxVal>>
RECURSIVE MaxLoop(_, _, _, _)
MaxLoop(i, env, maxIdx, maxVal) ==
    IF i >= 4 THEN <<maxIdx, maxVal>>
    ELSE IF FGt(env[i + 1], maxVal) THEN MaxLoop(i + 1, env, i, env[i + 1])
    ELSE MaxLoop(i + 1, env, maxIdx, maxVal)

\* sum := d.logicEnv[0] + d.logicEnv[1] + d.logicEnv[2] + d.logicEnv[3] + logicEpsilon
EnvSum(env) ==
    FAdd(FAdd(FAdd(FAdd(env[1], env[2]), env[3]), env[4]), logicEpsilon)

\* dominance <= d.logicConfig.DominanceThreshold
Bypassed(dominance) ==
    FLe(dominance, logicConfig.DominanceThreshold)

\* dominance := maxVal / sum.  logicEpsilon, below the resolution of sum, decides
\* the quotient only where the envelopes are all 0: 0 / 1e-12 = 0
Dominance(env) ==
    LET maxVal == MaxLoop(1, env, 0, env[1])[2]
        sum == EnvSum(env)
    IN  IF IsNaN(maxVal) \/ IsNaN(sum) THEN NaN
        ELSE IF sum = PosInf THEN (IF maxVal = PosInf THEN NaN ELSE 0)
        ELSE IF sum = 0 THEN 0
        ELSE FQuot(maxVal, sum)

\* intensity, clamped to [0, 1], for a dominance that is a number
Intensity(dominance) ==
    LET t == logicConfig.DominanceThreshold
        intensity == FixDiv((dominance - t) * FixOne, FixOne - t)
    IN  IF intensity < 0 THEN 0
        ELSE IF intensity > FixOne THEN FixOne
        ELSE intensity

\* gains := [4]float64{cut, cut, cut, cut}; gains[maxIdx] = boost
Gains(dominance, maxIdx) ==
    LET boost == FixOne + FixMul(logicConfig.MaxBoost - FixOne, Intensity(dominance))
        cut == FixOne - FixMul(FixOne - logicConfig.MinGain, Intensity(dominance))
    IN  [i \in 1..4 |-> IF i = maxIdx + 1 THEN boost ELSE cut]

\* the sum of the squares of four samples
Energy(x) ==
    FAdd(FAdd(FAdd(FSquare(x[1]), FSquare(x[2])), FSquare(x[3])), FSquare(x[4]))

\* the renormalisation, guarded: scale := math.Sqrt(preEnergy / postEnergy)
Renormalize(x, out) ==
    IF FGt(Energy(x), logicEpsilon) /\ FGt(Energy(out), logicEpsilon)
    THEN LET scale == FixSqrt(FQuot(Energy(x), Energy(out)))
         IN  [i \in 1..4 |-> FMul(out[i], scale)]
    ELSE out

\* a steering stage that starts every sample from envelopes of zero
applyLogicSteering_FreshEnv(env, lf, rf, lb, rb) ==
    LET x == <<lf, rf, lb, rb>>
        newEnv == EnvUpdate(<<0, 0, 0, 0>>, x)
        maxIdx == MaxLoop(1, newEnv, 0, newEnv[1])[1]
        dominance == Dominance(newEnv)
    IN  IF Bypassed(dominance) THEN [out |-> x, env |-> newEnv]
        ELSE IF IsNaN(dominance) THEN [out |-> <<NaN, NaN, NaN, NaN>>, env |-> newEnv]
        ELSE LET gains == Gains(dominance, maxIdx)
                 out == [i \in 1..4 |-> FMul(x[i], gains[i])]
             IN  [out |-> Renormalize(x, out), env |-> newEnv]

\* a steering stage that takes the dominance, where it is a number, from the
\* envelope as it was before the update
applyLogicSteering_StaleDominance(env, lf, rf, lb, rb) ==
    LET x == <<lf, rf, lb, rb>>
        newEnv == EnvUpdate(env, x)
        maxIdx == MaxLoop(1, newEnv, 0, newEnv[1])[1]
        dominance == IF IsNaN(Dominance(newEnv)) THEN NaN ELSE Dominance(env)
    IN  IF Bypassed(dominance) THEN [out |-> x, env |-> newEnv]
        ELSE IF IsNaN(dominance) THEN [out |-> <<NaN, NaN, NaN, NaN>>, env |-> newEnv]
        ELSE LET gains == Gains(dominance, maxIdx)
                 out == [i \in 1..4 |-> FMul(x[i], gains[i])]
             IN  [out |-> Renormalize(x, out), env |-> newEnv]

\* applyLogicSteering on the envelope env: the four samples returned, and the
\* envelope left in d.logicEnv.  A dominance that is NaN passes the threshold test
\* and makes intensity, boost, cut and with them all four products NaN; postEnergy
\* is then NaN too and the renormalisation is skipped.
applyLogicSteering(env, lf, rf, lb, rb) ==
    LET x == <<lf, rf, lb, rb>>
        newEnv == EnvUpdate(env, x)
        maxIdx == MaxLoop(1, newEnv, 0, newEnv[1])[1]
        dominance == Dominance(newEnv)
    IN  IF Bypassed(dominance) THEN [out |-> x, env |-> newEnv]
        ELSE IF IsNaN(dominance) THEN [out |-> <<NaN, NaN, NaN, NaN>>, env |-> newEnv]
        ELSE LET gains == Gains(dominance, maxIdx)
                 out == [i \in 1..4 |-> FMul(x[i], gains[i])]
             IN  [out |-> Renormalize(x, out), env |-> newEnv]

\* ----------------------------------------------------------- construction
\* NewHilbertTransformerWithWindow panics: the plan's error, an unknown window
\* type, or a runtime panic in makeFilter
NewHilbertPanics(bs, ov, wt, planErr) ==
    planErr \/ makeFilterPanics(bs, ov) \/ wt \notin WindowTypes

\* the fields NewHilbertTransformerWithWindow sets
SetHilbert(bs, ov, wt) ==
    /\ blockSize' = bs
    /\ overlap' = ov
    /\ windowType' = wt
    /\ window' = makeWindow(wt, ov)
    /\ transferFn' = makeFilter(bs, ov, wt)

\* a fatal panic: the program ends
Panic ==
    /\ pc' = "panicked"
    /\ UNCHANGED <<instanceVars, callVars, calls, latency, sideVars>>

NewHilbertTransformerWithWindow(bs, ov, wt, planErr) ==
    /\ pc = "new"
    /\ IF NewHilbertPanics(bs, ov, wt, planErr)
       THEN Panic
       ELSE /\ SetHilbert(bs, ov, wt)
            /\ kind' = "hilbert"
            /\ pc' = "idle"
            /\ UNCHANGED <<initialDelay, callVars, calls, latency, sideVars,
                           logicConfig, sampleRate, attackCoeff, releaseCoeff>>

\* the delay taken from the block size
DecoderInitialDelay_Block(bs, ov) ==
    ov + GoDiv(bs, 2)

\* initialDelay := overlap + overlap/2
DecoderInitialDelay(bs, ov) ==
    ov + GoDiv(ov, 2)

\* the steering fields of a new decoder: the default configuration, no sample
\* rate yet and with it coefficients of 0, envelopes of 0
SetLogic ==
    /\ logicConfig' = DefaultLogicSteeringConfig
    /\ sampleRate' = 0
    /\ attackCoeff' = timeToCoeff(DefaultLogicSteeringConfig.AttackTime, 0)
    /\ releaseCoeff' = timeToCoeff(DefaultLogicSteeringConfig.ReleaseTime, 0)
    /\ logicEnv' = <<0, 0, 0, 0>>

\* both Hilbert transformers of a decoder (hilbertLeft, hilbertRight) or encoder
\* (hilbertLB, hilbertRB) are built alike by NewHilbertTransformer(blockSize,
\* overlap), with the Hann window: one copy of their state stands for both
NewSQDecoderWithParams(bs, ov, planErr) ==
    /\ pc = "new"
    /\ IF NewHilbertPanics(bs, ov, "hann", planErr)
       THEN Panic
       ELSE /\ SetHilbert(bs, ov, "hann")
            /\ initialDelay' = DecoderInitialDelay(bs, ov)
            /\ kind' = "decoder"
            /\ pc' = "idle"
            /\ SetLogic
            /\ UNCHANGED <<callVars, calls, latency, steer, file, result, isolated, webVars>>

\* SetSampleRate: the sample rate, and the coefficients derived from it; the
\* envelopes are kept
SetSampleRate(rate) ==
    /\ pc = "idle"
    /\ kind = "decoder"
    /\ sampleRate' = rate
    /\ attackCoeff' = timeToCoeff(logicConfig.AttackTime, rate)
    /\ releaseCoeff' = timeToCoeff(logicConfig.ReleaseTime, rate)
    /\ UNCHANGED <<pc, kind, blockSize, overlap, initialDelay, windowType, window,
                   transferFn, logicConfig, callVars, calls, latency, sideVars>>

\* EnableLogicSteering: steering switched on or off; the envelopes are kept
EnableLogicSteering(enabled) ==
    /\ pc = "idle"
    /\ kind = "decoder"
    /\ logicConfig' = [logicConfig EXCEPT !.Enabled = enabled]
    /\ UNCHANGED <<pc, kind, blockSize, overlap, initialDelay, windowType, window,
                   transferFn, sampleRate, attackCoeff, releaseCoeff, callVars, calls,
                   latency, sideVars>>

\* initialDelay := overlap + overlap/2
EncoderInitialDelay(bs, ov) ==
    ov + GoDiv(ov, 2)

NewSQEncoderWithParams(bs, ov, planErr) ==
    /\ pc = "new"
    /\ IF NewHilbertPanics(bs, ov, "hann", planErr)
       THEN Panic
       ELSE /\ SetHilbert(bs, ov, "hann")
            /\ initialDelay' = EncoderInitialDelay(bs, ov)
            /\ kind' = "encoder"
            /\ pc' = "idle"
            /\ UNCHANGED <<callVars, calls, latency, sideVars,
                           logicConfig, sampleRate, attackCoeff, releaseCoeff>>

\* ------------------------------------------------------ the decoder: Process
DefaultBlockSize == 1024

DefaultOverlap == 512

\* sqrt2: math.Sqrt(2.0) / 2.0
sqrt2 == 707

\* a validation that compares the channel count only
DecoderInputError_CountOnly(in) ==
    Len(in) # 2

\* the checks Process (decoder) returns an error for
DecoderInputError(in) ==
    IF Len(in) # 2 THEN TRUE
    ELSE Len(in[2]) # Len(in[1])

\* an output one sample too long
NewOutput_OneMore(nch, n) ==
    [c \in 1..nch |-> Zeros(n + 1)]

\* output := make([][]float64, nch), each make([]float64, n)
NewOutput(nch, n) ==
    [c \in 1..nch |-> Zeros(n)]

\* the hops counted by a division that drops the last, partial hop
NumBlocks_Floor(n, ov) ==
    GoDiv(n, ov)

\* numBlocks := (numSamples + overlap - 1) / overlap
NumBlocks(n, ov) ==
    GoDiv(n + ov - 1, ov)

\* a block buffer kept between the calls: what the channel does not fill is
\* what an earlier call left there
InputBlock_Stale(ch, startIdx, bs, n) ==
    [i \in 1..bs |->
        IF startIdx + (i - 1) < n /\ startIdx + i <= Len(ch) THEN ch[startIdx + i]
        ELSE 100 * calls]

\* the block of channel ch that starts at startIdx, zero-padded past numSamples
InputBlock(ch, startIdx, bs, n) ==
    [i \in 1..bs |->
        IF startIdx + (i - 1) < n /\ startIdx + i <= Len(ch) THEN ch[startIdx + i] ELSE 0]

\* building the blocks indexes a channel beyond its end: a runtime panic
BlockReadPanics(in, startIdx, bs, n) ==
    \E c \in 1..Len(in) : \E i \in 0..(bs - 1) :
        startIdx + i < n /\ startIdx + i >= Len(in[c])

DecoderOutputOffset(ov) ==
    GoDiv(ov, 2)

\* the direct window read at the quadrature window's offset
DecoderInputOffset_Half(ov) ==
    GoDiv(ov, 2)

DecoderInputOffset(ov) ==
    GoDiv(ov, 4)

\* the SQ decode matrix: <<LF, RF, LB, RB>>
DecodeMatrix(lt, rt, hlt, hrt) ==
    << lt,
       rt,
       FixMul(sqrt2, hlt) - FixMul(sqrt2, rt),
       FixMul(sqrt2, lt) - FixMul(sqrt2, hrt) >>

\* one more assignment of output index outIdx
Count(wr, outIdx) ==
    [wr EXCEPT ![outIdx + 1] = @ + 1]

\* the steering stage of Process: applyLogicSteering on the matrix output m when
\* steering is enabled, m itself otherwise; log is the call made, if any
SteerStage(env, m) ==
    IF logicConfig.Enabled
    THEN LET r == applyLogicSteering(env, m[1], m[2], m[3], m[4])
         IN  [out |-> r.out, env |-> r.env,
              log |-> <<[in |-> m, out |-> r.out, env |-> env]>>]
    ELSE [out |-> m, env |-> env, log |-> << >>]

\* the inner loop of a decoder hop from position i on; acc is the output so far,
\* with the indices assigned (hw), the assignment counts (wr), the envelope (env)
\* and the steering calls made (log)
RECURSIVE DecodeLoop(_, _, _, _, _, _, _)
DecodeLoop(i, startIdx, blockL, blockR, phaseShiftedL, phaseShiftedR, acc) ==
    LET outIdx == startIdx + i
        inIdx == DecoderInputOffset(overlap) + i
        phaseIdx == DecoderOutputOffset(overlap) + i
    IN  IF i >= overlap THEN acc
        ELSE IF outIdx >= numSamples THEN acc
        ELSE IF inIdx >= blockSize THEN acc
        ELSE IF phaseIdx >= blockSize THEN acc
        ELSE LET m == DecodeMatrix(blockL[inIdx + 1], blockR[inIdx + 1],
                                   phaseShiftedL[phaseIdx + 1], phaseShiftedR[phaseIdx + 1])
                 s == SteerStage(acc.env, m)
                 q == s.out
             IN  DecodeLoop(i + 1, startIdx, blockL, blockR, phaseShiftedL, phaseShiftedR,
                     [out |-> [c \in 1..4 |-> [acc.out[c] EXCEPT ![outIdx + 1] = q[c]]],
                      hw |-> acc.hw \cup {outIdx},
                      wr |-> Count(acc.wr, outIdx),
                      env |-> s.env,
                      log |-> acc.log \o s.log])

\* Process called: the validation, the allocation of the output
DecoderProcess(in) ==
    /\ pc = "idle"
    /\ kind = "decoder"
    /\ calls < MaxCalls
    /\ input' = in
    /\ IF DecoderInputError(in)
       THEN /\ ret' = Nil
            /\ err' = TRUE
            /\ pc' = "returned"
            /\ calls' = calls + 1
            /\ UNCHANGED <<numSamples, numBlocks, blockIdx, output, writes, hopWritten>>
       ELSE IF overlap = 0
       THEN \* integer divide by zero
            /\ pc' = "panicked"
            /\ UNCHANGED <<numSamples, numBlocks, blockIdx, output, ret, err, calls,
                           writes, hopWritten>>
       ELSE /\ numSamples' = Len(in[1])
            /\ numBlocks' = NumBlocks(Len(in[1]), overlap)
            /\ output' = NewOutput(4, Len(in[1]))
            /\ blockIdx' = 0
            /\ writes' = Zeros(Len(in[1]))
            /\ hopWritten' = {}
            /\ pc' = "hop"
            /\ UNCHANGED <<ret, err, calls>>
    /\ latency' = << >>
    /\ UNCHANGED <<instanceVars, sideVars>>

\* one iteration of Process's loop over the blocks
DecoderHop ==
    /\ pc = "hop"
    /\ kind = "decoder"
    /\ blockIdx < numBlocks
    /\ LET startIdx == blockIdx * overlap
       IN  IF BlockReadPanics(input, startIdx, blockSize, numSamples)
           THEN /\ pc' = "panicked"
                /\ UNCHANGED <<blockIdx, output, writes, hopWritten, logicEnv, steer>>
           ELSE LET blockL == InputBlock(input[1], startIdx, blockSize, numSamples)
                    blockR == InputBlock(input[2], startIdx, blockSize, numSamples)
                    phaseShiftedL == ProcessBlock(blockSize, transferFn, blockL)
                    phaseShiftedR == ProcessBlock(blockSize, transferFn, blockR)
                    r == DecodeLoop(0, startIdx, blockL, blockR, phaseShiftedL,
                                    phaseShiftedR,
                                    [out |-> output, hw |-> {}, wr |-> writes,
                                     env |-> logicEnv, log |-> << >>])
                IN  /\ output' = r.out
                    /\ writes' = r.wr
                    /\ hopWritten' = r.hw
                    /\ logicEnv' = r.env
                    /\ steer' = r.log
                    /\ blockIdx' = blockIdx + 1
                    /\ pc' = "hop"
    /\ UNCHANGED <<instanceVars, input, numSamples, numBlocks, ret, err, calls, latency,
                   file, result, isolated, webVars>>

\* return output, nil
DecoderReturn ==
    /\ pc = "hop"
    /\ kind = "decoder"
    /\ blockIdx >= numBlocks
    /\ ret' = output
    /\ err' = FALSE
    /\ calls' = calls + 1
    /\ pc' = "returned"
    /\ UNCHANGED <<instanceVars, input, numSamples, numBlocks, blockIdx, output, latency,
                   writes, hopWritten, sideVars>>

\* the caller is done with the buffers of the call
CallerDone ==
    /\ pc = "returned"
    /\ pc' = "idle"
    /\ input' = Nil
    /\ numSamples' = 0
    /\ numBlocks' = 0
    /\ blockIdx' = 0
    /\ output' = Nil
    /\ ret' = Nil
    /\ err' = FALSE
    /\ writes' = << >>
    /\ hopWritten' = {}
    /\ steer' = << >>
    /\ UNCHANGED <<instanceVars, calls, latency, logicEnv, file, result, isolated, webVars>>

\* SQDecoder.GetLatency: return d.initialDelay
DecoderGetLatency ==
    /\ pc = "idle"
    /\ kind = "decoder"
    /\ latency' = <<initialDelay, calls>>
    /\ UNCHANGED <<pc, instanceVars, callVars, calls, sideVars>>

\* ------------------------------------------------------ the encoder: Process
\* the checks Process (encoder) returns an error for
EncoderInputError(in) ==
    IF Len(in) # 4 THEN TRUE
    ELSE \E i \in 2..4 : Len(in[i]) # Len(in[1])

EncoderOutputOffset(ov) ==
    GoDiv(ov, 2)

\* the block read from its first sample
EncoderInputOffset_None(ov) ==
    0

EncoderInputOffset(ov) ==
    GoDiv(ov, 4)

\* the front channels crossed
EncodeMatrix_Crossed(lf, rf, lb, rb, hlb, hrb) ==
    << rf + FixMul(sqrt2, rb) - FixMul(sqrt2, hlb),
       lf - FixMul(sqrt2, lb) + FixMul(sqrt2, hrb) >>

\* the SQ encode matrix: <<LT, RT>>
EncodeMatrix(lf, rf, lb, rb, hlb, hrb) ==
    << lf + FixMul(sqrt2, rb) - FixMul(sqrt2, hlb),
       rf - FixMul(sqrt2, lb) + FixMul(sqrt2, hrb) >>

\* the inner loop of an encoder hop from position i on; blocks is
\* <<blockLF, blockRF, blockLB, blockRB>>
RECURSIVE EncodeLoop(_, _, _, _, _, _)
EncodeLoop(i, startIdx, blocks, phaseShiftedLB, phaseShiftedRB, acc) ==
    LET outIdx == startIdx + i
        inIdx == EncoderInputOffset(overlap) + i
        phaseIdx == EncoderOutputOffset(overlap) + i
    IN  IF i >= overlap THEN acc
        ELSE IF outIdx >= numSamples THEN acc
        ELSE IF inIdx >= blockSize THEN acc
        ELSE IF phaseIdx >= blockSize THEN acc
        ELSE LET q == EncodeMatrix(blocks[1][inIdx + 1], blocks[2][inIdx + 1],
                                   blocks[3][inIdx + 1], blocks[4][inIdx + 1],
                                   phaseShiftedLB[phaseIdx + 1], phaseShiftedRB[phaseIdx + 1])
             IN  EncodeLoop(i + 1, startIdx, blocks, phaseShiftedLB, phaseShiftedRB,
                     [out |-> [c \in 1..2 |-> [acc.out[c] EXCEPT ![outIdx + 1] = q[c]]],
                      hw |-> acc.hw \cup {outIdx},
                      wr |-> Count(acc.wr, outIdx)])

\* Process called: the validation, the allocation of the output
EncoderProcess(in) ==
    /\ pc = "idle"
    /\ kind = "encoder"
    /\ calls < MaxCalls
    /\ input' = in
    /\ IF EncoderInputError(in)
       THEN /\ ret' = Nil
            /\ err' = TRUE
            /\ pc' = "returned"
            /\ calls' = calls + 1
            /\ UNCHANGED <<numSamples, numBlocks, blockIdx, output, writes, hopWritten>>
       ELSE IF overlap = 0
       THEN \* integer divide by zero
            /\ pc' = "panicked"
            /\ UNCHANGED <<numSamples, numBlocks, blockIdx, output, ret, err, calls,
                           writes, hopWritten>>
       ELSE /\ numSamples' = Len(in[1])
            /\ numBlocks' = NumBlocks(Len(in[1]), overlap)
            /\ output' = NewOutput(2, Len(in[1]))
            /\ blockIdx' = 0
            /\ writes' = Zeros(Len(in[1]))
            /\ hopWritten' = {}
            /\ pc' = "hop"
            /\ UNCHANGED <<ret, err, calls>>
    /\ latency' = << >>
    /\ UNCHANGED <<instanceVars, sideVars>>

\* one iteration of Process's loop over the blocks
EncoderHop ==
    /\ pc = "hop"
    /\ kind = "encoder"
    /\ blockIdx < numBlocks
    /\ LET startIdx == blockIdx * overlap
       IN  IF BlockReadPanics(input, startIdx, blockSize, numSamples)
           THEN /\ pc' = "panicked"
                /\ UNCHANGED <<blockIdx, output, writes, hopWritten>>
           ELSE LET blocks == [c \in 1..4 |->
                                  InputBlock(input[c], startIdx, blockSize, numSamples)]
                    phaseShiftedLB == ProcessBlock(blockSize, transferFn, blocks[3])
                    phaseShiftedRB == ProcessBlock(blockSize, transferFn, blocks[4])
                    r == EncodeLoop(0, startIdx, blocks, phaseShiftedLB, phaseShiftedRB,
                                    [out |-> output, hw |-> {}, wr |-> writes])
                IN  /\ output' = r.out
                    /\ writes' = r.wr
                    /\ hopWritten' = r.hw
                    /\ blockIdx' = blockIdx + 1
                    /\ pc' = "hop"
    /\ UNCHANGED <<instanceVars, input, numSamples, numBlocks, ret, err, calls, latency,
                   sideVars>>

\* return output, nil
EncoderReturn ==
    /\ pc = "hop"
    /\ kind = "encoder"
    /\ blockIdx >= numBlocks
    /\ ret' = output
    /\ err' = FALSE
    /\ calls' = calls + 1
    /\ pc' = "returned"
    /\ UNCHANGED <<instanceVars, input, numSamples, numBlocks, blockIdx, output, latency,
                   writes, hopWritten, sideVars>>

\* SQEncoder.GetLatency: return e.initialDelay
EncoderGetLatency ==
    /\ pc = "idle"
    /\ kind = "encoder"
    /\ latency' = <<initialDelay, calls>>
    /\ UNCHANGED <<pc, instanceVars, callVars, calls, sideVars>>

\* ------------------------------------- the Hilbert transformer: ProcessBlock
\* HilbertTransformer.ProcessBlock called with block in: the panic, or the
\* filtered block returned
ProcessBlockCall(in) ==
    /\ pc = "idle"
    /\ kind = "hilbert"
    /\ calls < MaxCalls
    /\ input' = <<in>>
    /\ IF ProcessBlockPanics(blockSize, in)
       THEN /\ pc' = "panicked"
            /\ UNCHANGED <<ret, calls>>
       ELSE /\ ret' = ProcessBlock(blockSize, transferFn, in)
            /\ calls' = calls + 1
            /\ pc' = "returned"
    /\ UNCHANGED <<instanceVars, numSamples, numBlocks, blockIdx, output, err, latency,
                   writes, hopWritten, sideVars>>

\* ------------------------------------------------------ the specification
Next ==
    \/ /\ pc = "new"
       /\ \E bs \in BlockSizes : \E ov \in Overlaps(bs) : \E planErr \in NewPlan64Err(bs) :
              \/ NewSQDecoderWithParams(bs, ov, planErr)
              \/ NewSQEncoderWithParams(bs, ov, planErr)
              \/ \E wt \in WindowTypes \cup {"other"} :
                     NewHilbertTransformerWithWindow(bs, ov, wt, planErr)
    \/ /\ pc = "idle"
       /\ kind = "decoder"
       /\ \E in \in Inputs : DecoderProcess(in)
    \/ /\ pc = "idle"
       /\ kind = "encoder"
       /\ \E in \in Inputs : EncoderProcess(in)
    \/ DecoderHop
    \/ DecoderReturn
    \/ EncoderHop
    \/ EncoderReturn
    \/ /\ pc = "idle"
       /\ kind = "hilbert"
       /\ \E in \in Blocks : ProcessBlockCall(in)
    \/ DecoderGetLatency
    \/ EncoderGetLatency
    \/ CallerDone

Spec ==
    Init /\ [][Next]_vars

\* ------------------------------------- the specification: a steered decoder
\* the (blockSize, overlap) pairs of the decoders that are steered
SteerSizes == {<<4, 2>>, <<8, 4>>}

\* the sample rates SetSampleRate is called with
SampleRates == {0, 100, 44100}

\* the buffers handed to Process
SteerInputs ==
    {MkInput(p, 2, MaxLen, 0, 0) : p \in {"zero", "ramp", "right"}}

SteerNext ==
    \/ /\ pc = "new"
       /\ \E sz \in SteerSizes : NewSQDecoderWithParams(sz[1], sz[2], FALSE)
    \/ \E rate \in SampleRates : SetSampleRate(rate)
    \/ \E enabled \in BOOLEAN : EnableLogicSteering(enabled)
    \/ /\ pc = "idle"
       /\ \E in \in SteerInputs : DecoderProcess(in)
    \/ DecoderHop
    \/ DecoderReturn
    \/ CallerDone

SteerSpec ==
    Init /\ [][SteerNext]_vars

\* -------------------------------- the specification: the steering stage
\* the configurations steered with: the default, one without boost or cut, one
\* with a high threshold and strong gains
LogicConfigs ==
    {[DefaultLogicSteeringConfig EXCEPT !.Enabled = TRUE],
     [DefaultLogicSteeringConfig EXCEPT !.Enabled = TRUE, !.DominanceThreshold = 100,
                                        !.MaxBoost = 1000, !.MinGain = 1000],
     [DefaultLogicSteeringConfig EXCEPT !.Enabled = TRUE, !.DominanceThreshold = 900,
                                        !.MaxBoost = 3000, !.MinGain = 100]}

\* the matrix outputs <<LF, RF, LB, RB>> that reach the steering stage: silence,
\* one channel alone, two channels level, all channels level, one channel above
\* the others, samples of a huge finite magnitude, near-silence, and a sample
\* near the top of the range whose square is finite
SteerTuples ==
    {<<0, 0, 0, 0>>,
     <<800, 0, 0, 0>>, <<0, -600, 0, 0>>, <<0, 0, 500, 0>>, <<0, 0, 0, -700>>,
     <<500, 500, 0, 0>>, <<0, 0, -400, 400>>, <<300, -300, 300, -300>>,
     <<900, 100, -100, 50>>, <<100, 200, -900, 150>>,
     <<Huge, 0, 0, 0>>, <<0, 300, -Huge, 0>>,
     <<Tiny, 0, 0, 0>>, <<0, Tiny, 0, 0>>,
     <<Large, 0, 0, 0>>}

\* a decoder NewSQDecoderWithParams(4, 2) after SetSampleRate(rate), steering
\* enabled with configuration cfg, in a Process call that has reached the
\* steering stage
LogicInit ==
    /\ pc = "steer"
    /\ kind = "decoder"
    /\ blockSize = 4
    /\ overlap = 2
    /\ initialDelay = DecoderInitialDelay(4, 2)
    /\ windowType = "hann"
    /\ window = makeWindow("hann", 2)
    /\ transferFn = makeFilter(4, 2, "hann")
    /\ input = Nil
    /\ numSamples = 0
    /\ numBlocks = 0
    /\ blockIdx = 0
    /\ output = Nil
    /\ ret = Nil
    /\ err = FALSE
    /\ calls = 0
    /\ latency = << >>
    /\ writes = << >>
    /\ hopWritten = {}
    /\ logicConfig \in LogicConfigs
    /\ sampleRate \in SampleRates
    /\ attackCoeff = timeToCoeff(logicConfig.AttackTime, sampleRate)
    /\ releaseCoeff = timeToCoeff(logicConfig.ReleaseTime, sampleRate)
    /\ logicEnv = <<0, 0, 0, 0>>
    /\ steer = << >>
    /\ file = << >>
    /\ result = << >>
    /\ isolated = << >>
    /\ WebInit

\* one pass of the inner loop through the steering stage, with matrix output m
SteerSample(m) ==
    /\ pc = "steer"
    /\ Len(steer) < MaxSteer
    /\ LET r == applyLogicSteering(logicEnv, m[1], m[2], m[3], m[4])
       IN  /\ logicEnv' = r.env
           /\ steer' = Append(steer, [in |-> m, out |-> r.out, env |-> logicEnv])
    /\ UNCHANGED <<pc, instanceVars, callVars, calls, latency, file, result, isolated, webVars>>

LogicNext ==
    \E m \in SteerTuples : SteerSample(m)

LogicSpec ==
    LogicInit /\ [][LogicNext]_vars

\* ------------------------------------------------------ the WAV writers
\* the samples written: inside [-1, 1], outside it, and not finite
WavValues ==
    <<0, 500, -250, 1500, -1500, NaN, PosInf, -PosInf>>

\* AudioData.Samples: nch channels of n samples, the values taken in turn from
\* WavValues, starting at the k-th
WavSamples(k, nch, n) ==
    [ch \in 1..nch |->
        [i \in 1..n |-> WavValues[((k + 3 * (ch - 1) + (i - 1)) % Len(WavValues)) + 1]]]

WavData ==
    {WavSamples(k, nch, n) : k \in 0..(Len(WavValues) - 1), nch \in {1, 2, 4},
                             n \in 0..MaxFrames}

\* the value int(x) of a NaN x, which Go leaves to the implementation: 0, or the
\* smallest integer (named here by -2^30)
IntOfNaN ==
    {0, -(2 ^ 30)}

\* writeWAVPCM16: val clamped by the two tests, then int(val * 32767.0); nan is
\* the implementation's int(NaN)
PCM16Value(val, nan) ==
    LET hi == IF FGt(val, FixOne) THEN FixOne ELSE val
        clamped == IF FLt(hi, -FixOne) THEN -FixOne ELSE hi
    IN  IF IsNaN(clamped) THEN nan ELSE GoDiv(clamped * 32767, FixOne)

\* writeWAVFloat32: the chain of tests on val, then float32(val), in thousandths
Float32Value(val) ==
    IF FGt(val, FixOne) THEN FixOne
    ELSE IF FLt(val, -FixOne) THEN -FixOne
    ELSE IF IsNaN(val) \/ IsInf(val) THEN 0
    ELSE val

\* frame i (0-based) of the data as the writer of the format passes it on
WavFrame(format, channels, data, i, nan) ==
    [ch \in 1..channels |->
        IF format = "pcm16" THEN PCM16Value(data[ch][i + 1], nan)
        ELSE Float32Value(data[ch][i + 1])]

\* the first k elements of s
Prefix(s, k) ==
    [j \in 1..k |-> s[j]]

\* writeWAVPCM16 / writeWAVFloat32 called on data with its NumSamples: the channel
\* count tested, the file created (createErr: os.Create fails) and the header
\* written
WriteWAVCall(format, channels, data, createErr) ==
    /\ pc = "new"
    /\ input' = data
    /\ numSamples' = IF Len(data) = 0 THEN 0 ELSE Len(data[1])
    /\ IF Len(data) # channels \/ createErr
       THEN /\ err' = TRUE
            /\ pc' = "returned"
            /\ file' = << >>
       ELSE /\ err' = FALSE
            /\ pc' = "write"
            /\ file' = [format |-> format, channels |-> channels, data |-> << >>]
    /\ UNCHANGED <<instanceVars, kind, numBlocks, blockIdx, output, ret, calls, latency,
                   writes, hopWritten, logicEnv, steer, result, isolated, webVars>>

\* one iteration of the loop over the samples: the frame written, or a write
\* that fails at the failAt-th value of the frame (0: none fails)
WriteWAVFrame(failAt, nan) ==
    /\ pc = "write"
    /\ Len(file.data) < numSamples * file.channels
    /\ failAt <= (IF file.format = "pcm16" THEN 1 ELSE file.channels)
    /\ LET i == Len(file.data) \div file.channels
           frame == WavFrame(file.format, file.channels, input, i, nan)
       IN  IF failAt = 0
           THEN /\ file' = [file EXCEPT !.data = file.data \o frame]
                /\ UNCHANGED <<pc, err>>
           ELSE /\ file' = [file EXCEPT !.data = file.data \o Prefix(frame, failAt - 1)]
                /\ err' = TRUE
                /\ pc' = "returned"
    /\ UNCHANGED <<instanceVars, kind, input, numSamples, numBlocks, blockIdx, output, ret,
                   calls, latency, writes, hopWritten, logicEnv, steer, result, isolated, webVars>>

\* return nil
WriteWAVReturn ==
    /\ pc = "write"
    /\ Len(file.data) >= numSamples * file.channels
    /\ err' = FALSE
    /\ pc' = "returned"
    /\ UNCHANGED <<instanceVars, kind, input, numSamples, numBlocks, blockIdx, output, ret,
                   calls, latency, writes, hopWritten, logicEnv, steer, file, result, isolated, webVars>>

\* WriteWAV, WriteStereoWAV, WriteFloat32WAV and WriteStereoFloat32WAV
WavNext ==
    \/ \E format \in {"pcm16", "float32"} : \E channels \in {2, 4} :
           \E data \in WavData : \E createErr \in BOOLEAN :
               WriteWAVCall(format, channels, data, createErr)
    \/ \E failAt \in 0..4 : \E nan \in IntOfNaN : WriteWAVFrame(failAt, nan)
    \/ WriteWAVReturn

WavSpec ==
    Init /\ [][WavNext]_vars

\* ------------------------------------------------- the separation metrics
\* separationEpsilon = 1e-12, below a thousandth: an RMS exceeds it exactly when
\* it exceeds 0
separationEpsilon == 0

\* the magnitudes of the decoded channels measured
Magnitudes == {0, 100, 1000}

\* the decoded buffers measured: up to three channels, each empty or the two
\* samples {m, -m}
Decoded ==
    UNION {{[ch \in 1..nch |-> IF n = 0 THEN << >> ELSE <<m[ch], -m[ch]>>] :
               m \in [1..nch -> Magnitudes]} : nch \in 1..3, n \in {0, 2}}

\* the options measured with: both leak modes, no band, or a band without a
\* sample rate
SeparationOptions ==
    [LeakMode : {"max", "avg"}, SampleRate : {0}, FMin : {0, 100}, FMax : {0}]

\* math.Log10 of a ratio in thousandths, in thousandths, for the ratios of the
\* RMS values of Decoded
Log10(ratio) ==
    CASE ratio = 100 -> -1000
      [] ratio = 181 -> -742
      [] ratio = 200 -> -699
      [] ratio = 1000 -> 0
      [] ratio = 1818 -> 260
      [] ratio = 2000 -> 301
      [] ratio = 10000 -> 1000
      [] ratio = 20000 -> 1301

\* the sum of the squares of the samples from index i on, in millionths
RECURSIVE SumSquares(_, _)
SumSquares(samples, i) ==
    IF i > Len(samples) THEN 0 ELSE samples[i] * samples[i] + SumSquares(samples, i + 1)

\* math.Sqrt(sum / float64(len(samples))), 0 for no samples
rms(samples) ==
    IF Len(samples) = 0 THEN 0
    ELSE SqrtSearch(SumSquares(samples, 1) \div Len(samples), 0, 32768)

\* rms, or 0 for a band without a sample rate (a band with one is measured by
\* bandRMS, which is not called with these options)
rmsWithOptions(samples, options) ==
    IF options.FMin <= 0 /\ options.FMax <= 0 THEN rms(samples)
    ELSE 0

\* separationDB: the quotient in dB, +Inf, or 0
separationDB(targetRMS, leakRMS) ==
    IF leakRMS > separationEpsilon /\ targetRMS > separationEpsilon
    THEN 20 * Log10(FixQuot(targetRMS, leakRMS))
    ELSE IF targetRMS > separationEpsilon /\ leakRMS <= separationEpsilon THEN PosInf
    ELSE 0

\* the loop of ChannelSeparation over the channels from ch (0-based) on:
\* <<leakRMS, leakCount>>
RECURSIVE LeakLoop(_, _, _, _, _, _)
LeakLoop(decoded, target, options, ch, leakRMS, leakCount) ==
    IF ch >= Len(decoded) THEN <<leakRMS, leakCount>>
    ELSE IF ch = target THEN LeakLoop(decoded, target, options, ch + 1, leakRMS, leakCount)
    ELSE LET r == rmsWithOptions(decoded[ch + 1], options)
         IN  IF options.LeakMode = "avg"
             THEN LeakLoop(decoded, target, options, ch + 1, leakRMS + r, leakCount + 1)
             ELSE LeakLoop(decoded, target, options, ch + 1,
                           IF r > leakRMS THEN r ELSE leakRMS, leakCount)

\* SeparationResult{}
ZeroResult ==
    [TargetRMS |-> 0, LeakRMS |-> 0, SeparationDB |-> 0]

\* ChannelSeparation(decoded, target, options); target is 0-based
ChannelSeparation(decoded, target, options) ==
    IF target < 0 \/ target >= Len(decoded) THEN ZeroResult
    ELSE LET targetRMS == rmsWithOptions(decoded[target + 1], options)
             l == LeakLoop(decoded, target, options, 0, 0, 0)
             leakRMS == IF options.LeakMode = "avg" /\ l[2] > 0 THEN FixDiv(l[1], l[2])
                        ELSE l[1]
         IN  [TargetRMS |-> targetRMS, LeakRMS |-> leakRMS,
              SeparationDB |-> separationDB(targetRMS, leakRMS)]

\* ChannelPairSeparation(decoded, target, leak, options)
ChannelPairSeparation(decoded, target, leak, options) ==
    IF target < 0 \/ target >= Len(decoded) THEN ZeroResult
    ELSE IF leak < 0 \/ leak >= Len(decoded) THEN ZeroResult
    ELSE LET targetRMS == rmsWithOptions(decoded[target + 1], options)
             leakRMS == rmsWithOptions(decoded[leak + 1], options)
         IN  [TargetRMS |-> targetRMS, LeakRMS |-> leakRMS,
              SeparationDB |-> separationDB(targetRMS, leakRMS)]

\* a call of ChannelSeparation, its arguments and its result recorded
ChannelSeparationCall(decoded, target, options) ==
    /\ pc = "new"
    /\ input' = decoded
    /\ result' = [fn |-> "ChannelSeparation", target |-> target, leak |-> -1,
                  options |-> options,
                  res |-> ChannelSeparation(decoded, target, options)]
    /\ pc' = "returned"
    /\ UNCHANGED <<instanceVars, kind, numSamples, numBlocks, blockIdx, output, ret, err,
                   calls, latency, writes, hopWritten, logicEnv, steer, file, isolated, webVars>>

\* a call of ChannelPairSeparation, its arguments and its result recorded
ChannelPairSeparationCall(decoded, target, leak, options) ==
    /\ pc = "new"
    /\ input' = decoded
    /\ result' = [fn |-> "ChannelPairSeparation", target |-> target, leak |-> leak,
                  options |-> options,
                  res |-> ChannelPairSeparation(decoded, target, leak, options)]
    /\ pc' = "returned"
    /\ UNCHANGED <<instanceVars, kind, numSamples, numBlocks, blockIdx, output, ret, err,
                   calls, latency, writes, hopWritten, logicEnv, steer, file, isolated, webVars>>

MetricsNext ==
    \/ \E decoded \in Decoded : \E target \in (-1)..3 : \E options \in SeparationOptions :
           ChannelSeparationCall(decoded, target, options)
    \/ \E decoded \in Decoded : \E target \in (-1)..3 : \E leak \in (-1)..3 :
           \E options \in SeparationOptions :
               ChannelPairSeparationCall(decoded, target, leak, options)

MetricsSpec ==
    Init /\ [][MetricsNext]_vars

\* ------------------------------- the specification: runAnalyze's round trip
\* the four-channel buffers runAnalyze encodes and decodes again: four sounding
\* channels, or the front channels alone
AnalyzeSamples ==
    {MkInput(p, 4, len, 0, 0) : p \in {"ramp", "front"}, len \in 0..MaxLen}

AnalyzeInit ==
    /\ pc = "new"
    /\ kind = "none"
    /\ blockSize = 0
    /\ overlap = 0
    /\ initialDelay = 0
    /\ windowType = ""
    /\ window = << >>
    /\ transferFn = << >>
    /\ input = Nil
    /\ numSamples = 0
    /\ numBlocks = 0
    /\ blockIdx = 0
    /\ output = Nil
    /\ ret = Nil
    /\ err = FALSE
    /\ calls = 0
    /\ latency = << >>
    /\ writes = << >>
    /\ hopWritten = {}
    /\ logicConfig = << >>
    /\ sampleRate = 0
    /\ attackCoeff = 0
    /\ releaseCoeff = 0
    /\ logicEnv = << >>
    /\ steer = << >>
    /\ file = << >>
    /\ result = << >>
    /\ isolated \in AnalyzeSamples
    /\ WebInit

\* encoded, err := sqEncoder.Process(isolated)
AnalyzeEncode ==
    /\ pc = "idle"
    /\ kind = "encoder"
    /\ calls = 0
    /\ EncoderProcess(isolated)

\* the decoder of the round trip, built with the encoder's sizes, given the
\* file's sample rate and the steering flag, and its Process called with the
\* encoder's output: decoded, err := sqDecoder.Process(encoded)
AnalyzeDecode(rate, logic) ==
    /\ pc = "returned"
    /\ kind = "encoder"
    /\ ~err
    /\ kind' = "decoder"
    /\ initialDelay' = DecoderInitialDelay(blockSize, overlap)
    /\ logicConfig' = [DefaultLogicSteeringConfig EXCEPT
                          !.Enabled = logic \/ DefaultLogicSteeringConfig.Enabled]
    /\ sampleRate' = rate
    /\ attackCoeff' = timeToCoeff(DefaultLogicSteeringConfig.AttackTime, rate)
    /\ releaseCoeff' = timeToCoeff(DefaultLogicSteeringConfig.ReleaseTime, rate)
    /\ logicEnv' = <<0, 0, 0, 0>>
    /\ input' = ret
    /\ numSamples' = Len(ret[1])
    /\ numBlocks' = NumBlocks(Len(ret[1]), overlap)
    /\ output' = NewOutput(4, Len(ret[1]))
    /\ blockIdx' = 0
    /\ writes' = Zeros(Len(ret[1]))
    /\ hopWritten' = {}
    /\ ret' = Nil
    /\ calls' = 0
    /\ latency' = << >>
    /\ pc' = "hop"
    /\ UNCHANGED <<blockSize, overlap, windowType, window, transferFn, err, steer, file,
                   result, isolated, webVars>>

AnalyzeNext ==
    \/ /\ pc = "new"
       /\ \E bs \in BlockSizes : \E ov \in Overlaps(bs) : \E planErr \in NewPlan64Err(bs) :
              NewSQEncoderWithParams(bs, ov, planErr)
    \/ AnalyzeEncode
    \/ EncoderHop
    \/ EncoderReturn
    \/ \E rate \in {44100} : \E logic \in BOOLEAN : AnalyzeDecode(rate, logic)
    \/ DecoderHop
    \/ DecoderReturn

AnalyzeSpec ==
    AnalyzeInit /\ [][AnalyzeNext]_vars

\* ------------------------------------------ the specification: the web page
\* the decodeFile calls the model follows at most
MaxDecodes == 2

MAX_FILE_BYTES == 104857600

\* the files the user can pick: 0 stands for no file (files[0] undefined)
Files == 1..5

\* file.name, as its characters
FileName(f) ==
    CASE f = 1 -> <<"a", ".", "w", "a", "v">>
      [] f = 2 -> <<"B", ".", "W", "A", "V">>
      [] f = 3 -> <<".", "w", "a", "v">>
      [] f = 4 -> <<"n", ".", "t", "x", "t">>
      [] f = 5 -> <<"c", ".", "w", "a", "v">>

\* file.size
FileSize(f) ==
    IF f = 5 THEN MAX_FILE_BYTES + 1 ELSE 2048

\* window.sqDecodeWav on the file's bytes returns data, or an error (not a WAV file)
DecodesToData(f) ==
    f # 4

\* the case folding of the /i flag, on the characters in use
Lower(ch) ==
    CASE ch = "W" -> "w"
      [] ch = "A" -> "a"
      [] ch = "V" -> "v"
      [] ch = "B" -> "b"
      [] OTHER -> ch

\* name.replace(/\.wav$/i, "")
BaseName(name) ==
    LET n == Len(name)
    IN  IF n >= 4 /\ [i \in 1..4 |-> Lower(name[n - 4 + i])] = <<".", "w", "a", "v">>
        THEN SubSeq(name, 1, n - 4)
        ELSE name

\* `${baseName || "decoded"}_quad.wav`
DownloadName(name) ==
    (IF BaseName(name) = << >> THEN <<"d", "e", "c", "o", "d", "e", "d">> ELSE BaseName(name))
        \o <<"_", "q", "u", "a", "d", ".", "w", "a", "v">>

\* the variables of the Go programs
coreVars ==
    <<pc, instanceVars, callVars, calls, latency, logicEnv, steer, file, result, isolated>>

\* resetOutput: the object URL revoked and forgotten
resetOutput ==
    IF outputUrl # 0
    THEN /\ urls' = [urls EXCEPT ![outputUrl] = 0]
         /\ outputUrl' = 0
    ELSE UNCHANGED <<urls, outputUrl>>

\* setFile(file)
setFile(f) ==
    /\ currentFile' = f
    /\ resetOutput
    /\ IF f = 0
       THEN /\ convertDisabled' = TRUE
            /\ UNCHANGED <<statusText, progressActive>>
       ELSE IF FileSize(f) > MAX_FILE_BYTES
       THEN /\ statusText' = "File too large for web demo"
            /\ progressActive' = FALSE
            /\ convertDisabled' = TRUE
       ELSE /\ convertDisabled' = ~wasmReady
            /\ UNCHANGED <<statusText, progressActive>>
    /\ linkHidden' = TRUE
    /\ UNCHANGED <<wasmReady, wasmLoading, linkHref, linkDownload, pending, coreVars>>

\* handleDrop: the first dropped file, if there is one
handleDrop(f) ==
    /\ f # 0
    /\ setFile(f)

\* handleFileInput: files[0], also when the selection was emptied
handleFileInput(f) ==
    /\ f \in Files \cup {0}
    /\ setFile(f)

\* ensureWasm resumes with the module instantiated
WasmLoaded ==
    /\ wasmLoading
    /\ wasmLoading' = FALSE
    /\ wasmReady' = TRUE
    /\ statusText' = "Decoder ready"
    /\ progressActive' = FALSE
    /\ convertDisabled' = (currentFile = 0)
    /\ UNCHANGED <<currentFile, outputUrl, linkHidden, linkHref, linkDownload, pending,
                   urls, coreVars>>

\* ensureWasm resumes in its catch block
WasmFailed ==
    /\ wasmLoading
    /\ wasmLoading' = FALSE
    /\ statusText' = "Failed to load decoder"
    /\ progressActive' = FALSE
    /\ UNCHANGED <<currentFile, outputUrl, wasmReady, convertDisabled, linkHidden, linkHref,
                   linkDownload, pending, urls, coreVars>>

\* a click on the enabled button: decodeFile up to its await
decodeFile ==
    /\ ~convertDisabled
    /\ Len(urls) + Len(pending) < MaxDecodes
    /\ IF currentFile = 0 \/ ~wasmReady
       THEN UNCHANGED <<outputUrl, urls, convertDisabled, statusText, progressActive, pending>>
       ELSE IF FileSize(currentFile) > MAX_FILE_BYTES
       THEN /\ statusText' = "File too large for web demo"
            /\ progressActive' = FALSE
            /\ UNCHANGED <<outputUrl, urls, convertDisabled, pending>>
       ELSE /\ resetOutput
            /\ convertDisabled' = TRUE
            /\ statusText' = "Decoding..."
            /\ progressActive' = TRUE
            /\ pending' = Append(pending, currentFile)
    /\ UNCHANGED <<currentFile, wasmReady, wasmLoading, linkHidden, linkHref, linkDownload,
                   coreVars>>

\* the pending calls without call i
Without(calls_, i) ==
    SubSeq(calls_, 1, i - 1) \o SubSeq(calls_, i + 1, Len(calls_))

\* decodeFile resumes after its await with the bytes of the file it read: the
\* try block, catch and finally
decodeFileResume(i) ==
    /\ i \in 1..Len(pending)
    /\ pending' = Without(pending, i)
    /\ IF ~DecodesToData(pending[i])
       THEN /\ statusText' = "Decode failed"
            /\ UNCHANGED <<outputUrl, urls, linkHref, linkDownload, linkHidden>>
       ELSE /\ urls' = Append(urls, pending[i])
            /\ outputUrl' = Len(urls) + 1
            /\ IF currentFile = 0
               THEN \* currentFile.name throws
                    /\ statusText' = "Decode failed"
                    /\ UNCHANGED <<linkHref, linkDownload, linkHidden>>
               ELSE /\ linkHref' = Len(urls) + 1
                    /\ linkDownload' = DownloadName(FileName(currentFile))
                    /\ linkHidden' = FALSE
                    /\ statusText' = "Done"
    /\ progressActive' = FALSE
    /\ convertDisabled' = (currentFile = 0)
    /\ UNCHANGED <<currentFile, wasmReady, wasmLoading, coreVars>>

WebNext ==
    \/ WasmLoaded
    \/ WasmFailed
    \/ \E f \in Files : handleDrop(f)
    \/ \E f \in Files \cup {0} : handleFileInput(f)
    \/ decodeFile
    \/ \E i \in 1..MaxDecodes : decodeFileResume(i)

WebSpec ==
    Init /\ [][WebNext]_vars

\* ------------------------------------------------------------- the claims
\* the claims' own reading of the buffers
N == IF Len(input) = 0 THEN 0 ELSE Len(input[1])

DecoderRejects(in) ==
    Len(in) # 2 \/ \E c \in 1..Len(in) : Len(in[c]) # Len(in[1])

EncoderRejects(in) ==
    Len(in) # 4 \/ \E c \in 1..Len(in) : Len(in[c]) # Len(in[1])

AllZero(chs) ==
    \A c \in 1..Len(chs) : \A n \in 1..Len(chs[c]) : chs[c][n] = 0

Accepted ==
    pc = "returned" /\ ~err

\* C1: Process returns a non-nil error and nil output exactly for the inputs with
\* a wrong channel count (decoder: not 2, encoder: not 4) or channels of unequal
\* length, and a nil error for every other input; no rejected input reaches the
\* block loop, and an instance with overlap > 0 never panics in Process.
C1_ProcessValidates ==
    /\ (pc = "returned" /\ kind = "decoder") =>
           IF DecoderRejects(input) THEN err /\ ret = Nil ELSE ~err
    /\ (pc = "returned" /\ kind = "encoder") =>
           IF EncoderRejects(input) THEN err /\ ret = Nil ELSE ~err
    /\ (pc = "hop" /\ kind = "decoder") => ~DecoderRejects(input)
    /\ (pc = "hop" /\ kind = "encoder") => ~EncoderRejects(input)
    /\ (pc = "panicked" /\ kind \in {"decoder", "encoder"}) => overlap = 0

C1_Witness ==
    /\ pc = "returned"
    /\ kind = "encoder"
    /\ err
    /\ Len(input) = 4
    /\ Len(input[3]) # Len(input[1])

\* C2: an accepted input of N samples per channel (N = 0 included) gives exactly
\* 4 channels (decoder) or 2 channels (encoder), each of exactly N samples.
C2_OutputShape ==
    /\ (Accepted /\ kind = "decoder") =>
           Len(ret) = 4 /\ \A c \in 1..4 : Len(ret[c]) = N
    /\ (Accepted /\ kind = "encoder") =>
           Len(ret) = 2 /\ \A c \in 1..2 : Len(ret[c]) = N

C2_Witness ==
    /\ Accepted
    /\ kind = "decoder"
    /\ N = 0
    /\ Len(ret) = 4

\* C3: with overlap = blockSize/2 the decoder's front channels are the input
\* advanced by overlap/4: LF[n] = LT[n + overlap/4] and RF[n] = RT[n + overlap/4]
\* for 0 <= n < N - overlap/4, whatever the samples and the number of hops.
C3_DecodeFrontIdentity ==
    (Accepted /\ kind = "decoder" /\ overlap = blockSize \div 2) =>
        \A n \in 0..(N - (overlap \div 4) - 1) :
            /\ ret[1][n + 1] = input[1][n + (overlap \div 4) + 1]
            /\ ret[2][n + 1] = input[2][n + (overlap \div 4) + 1]

C3_Witness ==
    /\ Accepted
    /\ kind = "decoder"
    /\ blockSize = 8
    /\ overlap = 4
    /\ N >= 9
    /\ blockIdx >= 3
    /\ ret[1][8] = input[1][9]
    /\ input[1][9] # 0

\* C4: with overlap = blockSize/2 and silent back channels the encoder's output
\* is the front input advanced by overlap/4: LT[n] = LF[n + overlap/4] and
\* RT[n] = RF[n + overlap/4] for 0 <= n < N - overlap/4.
C4_EncodeFrontIdentity ==
    (/\ Accepted
     /\ kind = "encoder"
     /\ overlap = blockSize \div 2
     /\ AllZero(<<input[3], input[4]>>)) =>
        \A n \in 0..(N - (overlap \div 4) - 1) :
            /\ ret[1][n + 1] = input[1][n + (overlap \div 4) + 1]
            /\ ret[2][n + 1] = input[2][n + (overlap \div 4) + 1]

C4_Witness ==
    /\ Accepted
    /\ kind = "encoder"
    /\ blockSize = 8
    /\ overlap = 4
    /\ N >= 9
    /\ AllZero(<<input[3], input[4]>>)
    /\ ret[2][8] = input[2][9]
    /\ input[2][9] # 0

\* C5: for 0 < overlap <= blockSize, hop b assigns exactly the output indices
\* [b*overlap, min((b+1)*overlap, N)), and when Process returns every output
\* index in [0, N) has been assigned exactly once.
C5_HopTiling ==
    (kind \in {"decoder", "encoder"} /\ 0 < overlap /\ overlap <= blockSize) =>
        /\ (pc = "hop" /\ blockIdx > 0) =>
               hopWritten = {n \in 0..(N - 1) :
                                (blockIdx - 1) * overlap <= n /\ n < blockIdx * overlap}
        /\ Accepted => \A n \in 1..N : writes[n] = 1

\* C6: an all-zero input gives an all-zero output: Process of the decoder and of
\* the encoder, and ProcessBlock of the Hilbert transformer.
C6_ZeroInZeroOut ==
    /\ (Accepted /\ kind \in {"decoder", "encoder"} /\ AllZero(input)) => AllZero(ret)
    /\ (pc = "returned" /\ kind = "hilbert" /\ AllZero(input)) =>
           \A n \in 1..Len(ret) : ret[n] = 0

C6_Witness ==
    /\ Accepted
    /\ kind = "decoder"
    /\ blockSize = 4
    /\ overlap = 2
    /\ N = 4 * overlap
    /\ AllZero(input)
    /\ AllZero(ret)

\* C7: GetLatency returns overlap + overlap/2 (integer division), whatever the
\* block size and however many Process calls came before; 768 for 1024/512.
C7_Latency ==
    /\ kind \in {"decoder", "encoder"} => initialDelay = overlap + (overlap \div 2)
    /\ latency # << >> => latency[1] = overlap + (overlap \div 2)
    /\ DecoderInitialDelay(DefaultBlockSize, DefaultOverlap) = 768
    /\ EncoderInitialDelay(DefaultBlockSize, DefaultOverlap) = 768

C7_Witness ==
    /\ kind = "decoder"
    /\ blockSize = 8
    /\ overlap = 3
    /\ latency = <<4, 2>>

\* C8: the passthrough path is delayed by the reported latency: the input sample
\* at index m is the output sample at index m + overlap + overlap/2.
C8_DelayIsLatency ==
    (Accepted /\ kind \in {"decoder", "encoder"}) =>
        \A m \in 0..(N - 1) :
            m + overlap + (overlap \div 2) < N =>
                /\ ret[1][m + overlap + (overlap \div 2) + 1] = input[1][m + 1]
                /\ ret[2][m + overlap + (overlap \div 2) + 1] = input[2][m + 1]

\* C9: ProcessBlock panics, returning nothing, exactly for the blocks whose
\* length is not blockSize; otherwise it returns blockSize samples.
C9_ProcessBlockLength ==
    kind = "hilbert" =>
        /\ pc = "panicked" => Len(input[1]) # blockSize /\ ret = Nil
        /\ pc = "returned" => Len(input[1]) = blockSize /\ Len(ret) = blockSize

C9_Witness ==
    /\ kind = "hilbert"
    /\ pc = "panicked"
    /\ Len(input[1]) = blockSize + 1

\* the zero-padded block of hop b of channel ch
PlainBlock(ch, b) ==
    [k \in 1..blockSize |-> IF b * overlap + (k - 1) < N THEN ch[b * overlap + k] ELSE 0]

\* the block of hop b of channel ch, filtered by a transformer built anew from
\* the instance's parameters
PlainHilbert(ch, b) ==
    ProcessBlock(blockSize, makeFilter(blockSize, overlap, "hann"), PlainBlock(ch, b))

\* the plain matrix decode of the input at output index n (0-based): hop
\* b = n / overlap, position i = n % overlap, the direct sample at overlap/4 + i
\* and the quadrature sample at overlap/2 + i of the hop's blocks; where the block
\* ends before either index, the zero of the allocation
PlainDecodeAt(n) ==
    LET b == n \div overlap
        i == n % overlap
        in == (overlap \div 4) + i
        ph == (overlap \div 2) + i
    IN  IF in >= blockSize \/ ph >= blockSize THEN <<0, 0, 0, 0>>
        ELSE LET l == PlainBlock(input[1], b)[in + 1]
                 r == PlainBlock(input[2], b)[in + 1]
                 hl == PlainHilbert(input[1], b)[ph + 1]
                 hr == PlainHilbert(input[2], b)[ph + 1]
             IN  << l,
                    r,
                    FixMul(sqrt2, hl) - FixMul(sqrt2, r),
                    FixMul(sqrt2, l) - FixMul(sqrt2, hr) >>

\* C11: with steering disabled, and so with the default configuration, the
\* output of every accepted Process call of a decoder is, sample for sample, the
\* plain matrix decode of that call's input, whatever calls came before and
\* whatever they left in the envelopes; no such call runs the steering stage.
C11_DisabledIsPlainDecode ==
    (/\ kind = "decoder"
     /\ pc \in {"hop", "returned"}
     /\ ~err
     /\ (~logicConfig.Enabled \/ logicConfig = DefaultLogicSteeringConfig)) =>
        /\ steer = << >>
        /\ pc = "returned" =>
               \A c \in 1..4 : \A n \in 1..N : ret[c][n] = PlainDecodeAt(n - 1)[c]

C11_Witness ==
    /\ kind = "decoder"
    /\ Accepted
    /\ ~logicConfig.Enabled
    /\ calls = 2
    /\ logicEnv # <<0, 0, 0, 0>>
    /\ N = MaxLen
    /\ ret[3][N] # 0
    /\ \A c \in 1..4 : \A n \in 1..N : ret[c][n] = PlainDecodeAt(n - 1)[c]

\* the k-th call of applyLogicSteering in steer, as the code walks through it: the
\* envelope after the update, the dominance, and the samples after the gains
\* and before the renormalisation
SteerCall(k) ==
    LET c == steer[k]
        env == EnvUpdate(c.env, c.in)
        dominance == Dominance(env)
        maxIdx == MaxLoop(1, env, 0, env[1])[1]
        applied == ~IsNaN(dominance) /\ dominance > logicConfig.DominanceThreshold
    IN  [in |-> c.in, out |-> c.out, env |-> env, dominance |-> dominance,
         applied |-> applied, maxIdx |-> maxIdx, before |-> c.env,
         gained |-> IF applied
                    THEN [i \in 1..4 |-> FMul(c.in[i], Gains(dominance, maxIdx)[i])]
                    ELSE c.in]

\* the energies a and b, in millionths, are those of two sets of four samples
\* that differ by at most 4 thousandths per sample: | a - b | is at most
\* 2 * 4 * 2 * sqrt(b) + 4 * 4 * 4
EnergyClose(a, b) ==
    LET d == IF a > b THEN a - b ELSE b - a
    IN  d <= 16 * (SqrtSearch(b, 0, 32768) + 1) + 64

\* C12: on every sample on which gains are applied and the energy sums before
\* and after the gains both exceed logicEpsilon, the sum of the squares of the
\* four samples returned equals the sum of the squares of the four samples
\* passed in, up to the rounding of the samples to thousandths
C12_PowerPreserved ==
    \A k \in 1..Len(steer) :
        LET c == SteerCall(k)
        IN  (/\ c.applied
             /\ FGt(Energy(c.in), logicEpsilon)
             /\ FGt(Energy(c.gained), logicEpsilon)) =>
                EnergyClose(Energy(c.out), Energy(c.in))

\* C13: for finite input samples of any magnitude, and a configuration with the
\* threshold in (0, 1), MaxBoost >= 1 and MinGain in (0, 1], no call of
\* applyLogicSteering returns NaN or an infinity.
C13_SteeringFinite ==
    (/\ 0 < logicConfig.DominanceThreshold /\ logicConfig.DominanceThreshold < FixOne
     /\ logicConfig.MaxBoost >= FixOne
     /\ 0 < logicConfig.MinGain /\ logicConfig.MinGain <= FixOne) =>
        \A k \in 1..Len(steer) :
            (\A j \in 1..k : \A i \in 1..4 : ~IsNaN(steer[j].in[i]) /\ ~IsInf(steer[j].in[i])) =>
                \A i \in 1..4 : ~IsNaN(steer[k].out[i]) /\ ~IsInf(steer[k].out[i])

\* the matrix encode of the input at output index n (0-based) by an encoder
\* built anew from the instance's parameters: hop b = n / overlap, position
\* i = n % overlap, the direct samples at overlap/4 + i and the quadrature samples
\* at overlap/2 + i of the hop's blocks
PlainEncodeAt(n) ==
    LET b == n \div overlap
        i == n % overlap
        in == (overlap \div 4) + i
        ph == (overlap \div 2) + i
    IN  IF in >= blockSize \/ ph >= blockSize THEN <<0, 0>>
        ELSE LET lf == PlainBlock(input[1], b)[in + 1]
                 rf == PlainBlock(input[2], b)[in + 1]
                 lb == PlainBlock(input[3], b)[in + 1]
                 rb == PlainBlock(input[4], b)[in + 1]
                 hlb == PlainHilbert(input[3], b)[ph + 1]
                 hrb == PlainHilbert(input[4], b)[ph + 1]
             IN  << lf + FixMul(sqrt2, rb) - FixMul(sqrt2, hlb),
                    rf - FixMul(sqrt2, lb) + FixMul(sqrt2, hrb) >>

\* what a freshly constructed instance with the same parameters returns for
\* the input of the call
FreshOutput ==
    IF kind = "decoder"
    THEN [c \in 1..4 |-> [n \in 1..N |-> PlainDecodeAt(n - 1)[c]]]
    ELSE [c \in 1..2 |-> [n \in 1..N |-> PlainEncodeAt(n - 1)[c]]]

\* only a decoder has a steering stage
SteeringDisabled ==
    kind = "decoder" => ~logicConfig.Enabled

\* a step of a Process call of a decoder or an encoder with steering disabled:
\* the call itself, or one of its hops
ProcessStep ==
    /\ kind \in {"decoder", "encoder"}
    /\ SteeringDisabled
    /\ pc = "hop" \/ (pc = "idle" /\ pc' \in {"hop", "returned"})

\* C15: with steering disabled, every accepted Process call of a decoder or an
\* encoder, whatever calls the instance served before, returns what a freshly
\* constructed instance with the same parameters returns for that input; no
\* step of the call changes the fields of the instance, and no hop changes the
\* caller's input.
C15_ProcessKeepsNothing ==
    /\ []((Accepted /\ kind \in {"decoder", "encoder"} /\ SteeringDisabled) =>
              ret = FreshOutput)
    /\ [][ProcessStep => UNCHANGED <<instanceVars, logicEnv>>]_vars
    /\ [][(ProcessStep /\ pc = "hop") => UNCHANGED input]_vars

\* the second call on an encoder returns, with samples that are not zero, what
\* a fresh encoder returns
C15_Witness ==
    /\ Accepted
    /\ kind = "encoder"
    /\ calls = 2
    /\ N = MaxLen
    /\ overlap >= 4
    /\ ret[1][N] # 0
    /\ ret[2][N] # 0
    /\ ret = FreshOutput

\* the sample of the data that position p (1-based) of the file's interleaved
\* values was written from
WavSource(p) ==
    input[((p - 1) % file.channels) + 1][((p - 1) \div file.channels) + 1]

\* val clamped to [-1, 1], a NaN or an infinity replaced by 0
ClampedOrZero(val) ==
    IF IsNaN(val) \/ IsInf(val) THEN 0
    ELSE IF val > FixOne THEN FixOne
    ELSE IF val < -FixOne THEN -FixOne
    ELSE val

\* C16: both WAV writers clamp every sample to [-1, 1] and replace every sample
\* that is not finite (NaN, +Inf, -Inf) by 0 before they quantize it, so the
\* value written for such a sample is always 0.
C16_WritersSanitize ==
    (pc \in {"write", "returned"} /\ file # << >>) =>
        \A p \in 1..Len(file.data) :
            LET val == WavSource(p)
            IN  /\ file.data[p] = IF file.format = "pcm16"
                                  THEN GoDiv(ClampedOrZero(val) * 32767, FixOne)
                                  ELSE ClampedOrZero(val)
                /\ (IsNaN(val) \/ IsInf(val)) => file.data[p] = 0

\* C17: the separation reported for a target RMS and a leak RMS is +Inf when
\* the leak is at or below epsilon and the target above it, 0 when both are at
\* or below epsilon, and 20 * log10(target / leak) in every other case (-Inf for
\* a target of 0); target 1.0 with leak 0.1 gives exactly 20 dB.
C17_SeparationCases ==
    (pc = "returned" /\ result # << >>) =>
        LET t == result.res.TargetRMS
            l == result.res.LeakRMS
        IN  result.res.SeparationDB =
                IF l <= separationEpsilon /\ t > separationEpsilon THEN PosInf
                ELSE IF l <= separationEpsilon /\ t <= separationEpsilon THEN 0
                ELSE IF t = 0 THEN -PosInf
                ELSE 20 * Log10(FixQuot(t, l))

\* the block of hop b of channel ch, filtered by the instance's transformer
HopHilbert(ch, b) ==
    ProcessBlock(blockSize, transferFn, PlainBlock(ch, b))

\* the hop that has just run, and its positions that lie inside the output
LastHop == blockIdx - 1

HopPositions ==
    {i \in 0..(overlap - 1) : LastHop * overlap + i < N}

\* C18: for hop b and position i in [0, overlap) with b*overlap + i < N, the
\* decoder writes at output index b*overlap + i the values LF = L[in],
\* RF = R[in], LB = c*HL[ph] - c*R[in], RB = c*L[in] - c*HR[ph], with
\* in = overlap/4 + i and ph = overlap/2 + i in the blocks of the hop.
C18_DecodeAlignment ==
    (/\ kind = "decoder" /\ pc = "hop" /\ blockIdx > 0
     /\ 0 < overlap /\ overlap <= blockSize
     /\ SteeringDisabled) =>
        \A i \in HopPositions :
            LET in == (overlap \div 4) + i
                ph == (overlap \div 2) + i
                n == LastHop * overlap + i
            IN  /\ n \in hopWritten
                /\ in < blockSize
                /\ ph < blockSize
                /\ output[1][n + 1] = PlainBlock(input[1], LastHop)[in + 1]
                /\ output[2][n + 1] = PlainBlock(input[2], LastHop)[in + 1]
                /\ output[3][n + 1] =
                       FixMul(sqrt2, HopHilbert(input[1], LastHop)[ph + 1])
                       - FixMul(sqrt2, PlainBlock(input[2], LastHop)[in + 1])
                /\ output[4][n + 1] =
                       FixMul(sqrt2, PlainBlock(input[1], LastHop)[in + 1])
                       - FixMul(sqrt2, HopHilbert(input[2], LastHop)[ph + 1])

\* C19: for hop b and position i in [0, overlap) with b*overlap + i < N, the
\* encoder writes at output index b*overlap + i the values
\* LT = lf + c*rb - c*H(lb) and RT = rf - c*lb + c*H(rb), the direct samples read
\* at overlap/4 + i of the zero-padded blocks and the filtered back channels at
\* overlap/2 + i; the front channels are not filtered.
C19_EncodeMatrix ==
    (/\ kind = "encoder" /\ pc = "hop" /\ blockIdx > 0
     /\ 0 < overlap /\ overlap <= blockSize) =>
        \A i \in HopPositions :
            LET in == (overlap \div 4) + i
                ph == (overlap \div 2) + i
                n == LastHop * overlap + i
            IN  /\ n \in hopWritten
                /\ in < blockSize
                /\ ph < blockSize
                /\ output[1][n + 1] =
                       PlainBlock(input[1], LastHop)[in + 1]
                       + FixMul(sqrt2, PlainBlock(input[4], LastHop)[in + 1])
                       - FixMul(sqrt2, HopHilbert(input[3], LastHop)[ph + 1])
                /\ output[2][n + 1] =
                       PlainBlock(input[2], LastHop)[in + 1]
                       - FixMul(sqrt2, PlainBlock(input[3], LastHop)[in + 1])
                       + FixMul(sqrt2, HopHilbert(input[4], LastHop)[ph + 1])

\* C20: whenever the dominance computed from the envelopes after their update
\* is at or below the configured threshold, applyLogicSteering returns the four
\* samples it was given, unchanged.
C20_BypassReturnsInput ==
    \A k \in 1..Len(steer) :
        LET c == SteerCall(k)
        IN  (~IsNaN(c.dominance) /\ c.dominance <= logicConfig.DominanceThreshold) =>
                c.out = c.in

\* a sample with energy on all four channels is bypassed right after a sample
\* that was steered
C20_Witness ==
    /\ Len(steer) = 2
    /\ SteerCall(1).applied
    /\ SteerCall(1).out # SteerCall(1).in
    /\ ~IsNaN(SteerCall(2).dominance)
    /\ SteerCall(2).dominance > 0
    /\ SteerCall(2).dominance <= logicConfig.DominanceThreshold
    /\ \A i \in 1..4 : SteerCall(2).in[i] # 0
    /\ SteerCall(2).out = SteerCall(2).in

\* C21: for every sample whose energy sum before the gains, or after them, is
\* at or below logicEpsilon, the steering stage returns the four samples it was
\* given unchanged, whatever the envelopes and the dominance are.
C21_NearSilenceUntouched ==
    \A k \in 1..Len(steer) :
        LET c == SteerCall(k)
        IN  (\/ FLe(Energy(c.in), logicEpsilon)
             \/ FLe(Energy(c.gained), logicEpsilon)) =>
                c.out = c.in

\* the configurations with MaxBoost >= 1 and MinGain in (0, 1]
GainsInRange ==
    /\ logicConfig.MaxBoost >= FixOne
    /\ 0 < logicConfig.MinGain
    /\ logicConfig.MinGain <= FixOne

\* C22: on a sample that is not bypassed, with MaxBoost >= 1 and MinGain in
\* (0, 1], the intensity lies in [0, 1], the dominant channel alone is multiplied
\* by boost = 1 + (MaxBoost - 1) * intensity and the three others by
\* cut = 1 - (1 - MinGain) * intensity, with 1 <= boost <= MaxBoost and
\* MinGain <= cut <= 1.
C22_BoostOneCutThree ==
    \A k \in 1..Len(steer) :
        LET c == SteerCall(k)
        IN  (GainsInRange /\ ~FLe(c.dominance, logicConfig.DominanceThreshold)) =>
                /\ ~IsNaN(c.dominance)
                /\ LET intensity == Intensity(c.dominance)
                       boost == FixOne + FixMul(logicConfig.MaxBoost - FixOne, intensity)
                       cut == FixOne - FixMul(FixOne - logicConfig.MinGain, intensity)
                       gained == [i \in 1..4 |->
                                     FMul(c.in[i], IF i = c.maxIdx + 1 THEN boost ELSE cut)]
                   IN  /\ 0 <= intensity /\ intensity <= FixOne
                       /\ FixOne <= boost /\ boost <= logicConfig.MaxBoost
                       /\ logicConfig.MinGain <= cut /\ cut <= FixOne
                       /\ c.out = Renormalize(c.in, gained)

\* C23: the dominant channel is the arg-max of the four envelopes after the
\* update (infinite envelopes included), and where several envelopes equal the
\* maximum it is the one of lowest index, in the order LF, RF, LB, RB.
C23_ArgMaxLowestIndex ==
    \A k \in 1..Len(steer) :
        LET c == SteerCall(k)
            m == c.maxIdx + 1
        IN  (\A i \in 1..4 : ~IsNaN(c.env[i])) =>
                /\ m \in 1..4
                /\ \A i \in 1..4 : c.env[i] <= c.env[m]
                /\ \A i \in 1..(m - 1) : c.env[i] < c.env[m]
                /\ c.env = logicEnv \/ k < Len(steer)

\* the two back channels share the largest envelope, and the left one, of
\* lower index, is the dominant channel
C23_Witness ==
    \E k \in 1..Len(steer) :
        LET c == SteerCall(k)
        IN  /\ c.env[3] = c.env[4]
            /\ c.env[3] > c.env[1]
            /\ c.env[3] > c.env[2]
            /\ c.maxIdx = 2
            /\ c.applied

\* the envelopes the steering calls in steer leave behind, one after the other:
\* each is the update of the envelope its call has read
EnvChain ==
    /\ \A k \in 1..(Len(steer) - 1) :
           steer[k + 1].env = EnvUpdate(steer[k].env, steer[k].in)
    /\ Len(steer) > 0 =>
           logicEnv = EnvUpdate(steer[Len(steer)].env, steer[Len(steer)].in)

\* C24: the envelopes pass from each steered sample to the next in order: the
\* envelope a sample reads is the one the sample before it has written, within a
\* hop, from one hop to the next and from one Process call to the next; no
\* step but the creation of the decoder or a steered sample changes them, not
\* a new block, not EnableLogicSteering, not SetSampleRate.
C24_EnvelopeCarried ==
    /\ [](kind = "decoder" => EnvChain)
    /\ [][(kind = "decoder" /\ pc = "hop" /\ pc' = "hop" /\ steer' # << >>) =>
              steer'[1].env = logicEnv]_vars
    /\ [][(pc # "new" /\ logicEnv' # logicEnv) =>
              (pc = "hop" /\ logicConfig.Enabled /\ steer' # << >>)]_vars

\* the first sample of the second Process call reads envelopes, not zero, that the
\* first call has left, after the sample rate was set
C24_Witness ==
    /\ kind = "decoder"
    /\ pc = "hop"
    /\ calls = 1
    /\ blockIdx = 1
    /\ sampleRate # 0
    /\ steer # << >>
    /\ steer[1].env # <<0, 0, 0, 0>>
    /\ logicEnv # steer[1].env
    /\ EnvChain

\* a / b <= c / d for a, c >= 0 and b, d > 0, compared exactly by the integer
\* parts and then by the inverted remainders
RECURSIVE FracLe(_, _, _, _)
FracLe(a, b, c, d) ==
    IF a \div b # c \div d THEN a \div b < c \div d
    ELSE IF a % b = 0 THEN TRUE
    ELSE IF c % d = 0 THEN FALSE
    ELSE FracLe(d, c % d, b, a % b)

\* C25: on every sample where gains are applied (dominance above the threshold,
\* MaxBoost >= 1, MinGain in (0, 1]), the dominant channel's fraction of the
\* energy of the four samples returned is at least its fraction of the energy
\* of the four samples passed in, and strictly greater when intensity > 0 and
\* the dominant sample and at least one other sample are not zero.
C25_DominantShareGrows ==
    \A k \in 1..Len(steer) :
        LET c == SteerCall(k)
            m == c.maxIdx + 1
            inDom == FSquare(c.in[m])
            inAll == Energy(c.in)
            outDom == FSquare(c.out[m])
            outAll == Energy(c.out)
        IN  (c.applied /\ GainsInRange) =>
                /\ inAll > 0 => (outAll > 0 /\ FracLe(inDom, inAll, outDom, outAll))
                /\ (/\ Intensity(c.dominance) > 0
                     /\ c.in[m] # 0
                     /\ \E i \in 1..4 : i # m /\ c.in[i] # 0) =>
                        ~FracLe(outDom, outAll, inDom, inAll)
\* ------------------------------------------------------------------ C26
\* the value the kernel is to have at index n (0-based) of the impulse array
KernelAt(ov, n) ==
    LET center == GoDiv(ov, 2)
        d == n - center
    IN  IF d > 0 /\ d % 2 = 1 /\ d < center THEN TwoOverPi(d)
        ELSE IF d < 0 /\ (-d) % 2 = 1 /\ (-d) < center THEN -TwoOverPi(-d)
        ELSE 0

\* C26: before the window and the gain, the impulse response of a built
\* instance is 2/(pi*i) at center+i and -2/(pi*i) at center-i for every odd
\* offset i with 0 < i < center = overlap/2, and zero at every other index of
\* the blockSize-long array (the center, the even offsets, the indices from
\* overlap on); nothing outside [0, overlap) is written, so the transformed
\* response is zero there too, and under the rectangular window it is the
\* kernel times the gain
C26_ImpulseResponse ==
    kind # "none" =>
        LET h == RawImpulse(blockSize, overlap)
        IN  /\ Len(h) = blockSize
            /\ \A k \in 1..blockSize : h[k] = KernelAt(overlap, k - 1)
            /\ \A k \in 1..blockSize : h[k] # 0 => k <= overlap
            /\ \A k \in 1..blockSize : k > overlap => transferFn[k] = 0
            /\ windowType = "rect" =>
                   \A k \in 1..overlap :
                       transferFn[k] = FixMul(KernelAt(overlap, k - 1), FilterGain)

\* an instance with the rectangular window whose kernel reaches the offsets 1
\* and 3 on both sides of the center
C26_Witness ==
    /\ kind = "hilbert"
    /\ windowType = "rect"
    /\ blockSize = 8
    /\ overlap = 8
    /\ transferFn[8] > 0
    /\ transferFn[6] > 0
    /\ transferFn[4] < 0
    /\ transferFn[2] < 0
    /\ transferFn[5] = 0
    /\ transferFn[7] = 0

\* ------------------------------------------------------------------ C27
\* the front channels of the round trip's source, its length and the offset of
\* one pass
BackSilent ==
    \A c \in 3..4 : \A n \in 1..Len(isolated[c]) : isolated[c][n] = 0

RoundTripDone ==
    /\ isolated # Nil
    /\ kind = "decoder"
    /\ pc = "returned"
    /\ ~err

\* C27: the offsets of the two passes add up.  With silent back channels,
\* overlap = blockSize/2 and steering disabled, the decoded LF and RF at n are
\* the source's LF and RF at n + 2*(overlap/4) for every n < N - 2*(overlap/4);
\* and after a single Process call the last overlap/4 samples of the channels
\* passed through (LT, RT of the encoder, LF, RF of the decoder) are zero
C27_RoundTripOffset ==
    LET q == GoDiv(overlap, 4)
        len == Len(isolated[1])
    IN  (isolated # Nil /\ pc = "returned" /\ ~err /\ overlap = GoDiv(blockSize, 2)
            /\ BackSilent) =>
            /\ (kind = "decoder" /\ ~logicConfig.Enabled) =>
                   \A c \in 1..2 : \A n \in 0..(len - 2 * q - 1) :
                       ret[c][n + 1] = isolated[c][n + 2 * q + 1]
            /\ (kind = "encoder" \/ ~logicConfig.Enabled) =>
                   \A c \in 1..2 : \A n \in 0..(len - 1) :
                       n >= len - q => ret[c][n + 1] = 0

\* a round trip done with overlap/4 = 1 on a source with sounding front
\* channels: the first decoded sample is the source's third, the last is zero
C27_Witness ==
    /\ RoundTripDone
    /\ BackSilent
    /\ ~logicConfig.Enabled
    /\ blockSize = 8
    /\ overlap = 4
    /\ Len(isolated[1]) = MaxLen
    /\ ret[1][1] = isolated[1][3]
    /\ ret[1][1] # isolated[1][1]
    /\ ret[1][1] # isolated[1][2]
    /\ ret[2][MaxLen - 2] = isolated[2][MaxLen]
    /\ ret[1][MaxLen] = 0
    /\ isolated[1][MaxLen] # 0

\* ------------------------------------------------------------------ C28
\* C28: whenever the download link is visible, a file is selected, the link's
\* object URL is live and holds the decode of that file, and its download name
\* is derived from that file's name: no decode is published under another
\* file's name or after its file was replaced
C28_LinkMatchesFile ==
    ~linkHidden =>
        /\ currentFile # 0
        /\ linkHref # 0
        /\ urls[linkHref] = currentFile
        /\ linkDownload = DownloadName(FileName(currentFile))

\* ------------------------------------------------------------------ C29
\* v lies between a and b inclusive; among the values in millionths the two
\* products of an update are each rounded toward zero, which may take up to two
\* millionths off
Between(v, a, b) ==
    /\ ~IsNaN(v)
    /\ ~IsNaN(a)
    /\ ~IsNaN(b)
    /\ v <= (IF a > b THEN a ELSE b)
    /\ v + 2 >= (IF a > b THEN b ELSE a)

\* C29: the coefficients lie in [0, 1); on every sample every envelope is a
\* number that is not negative, each update leaves the envelope between its
\* previous value and the sample's square, and the dominance is a number in
\* [0, 1) (a ratio less than a thousandth below 1 reads FixOne here)
C29_EnvelopeBounds ==
    \A k \in 1..Len(steer) :
        LET c == SteerCall(k)
        IN  /\ 0 <= attackCoeff /\ attackCoeff < FixOne
            /\ 0 <= releaseCoeff /\ releaseCoeff < FixOne
            /\ \A i \in 1..4 : FLe(0, c.env[i])
            /\ \A i \in 1..4 : Between(c.env[i], c.before[i], FSquare(c.in[i]))
            /\ FLe(0, c.dominance)
            /\ FLe(c.dominance, FixOne)

\* ------------------------------------------------------------------ C30
\* a decoder or an encoder with 0 < overlap <= blockSize
FramerConfig ==
    /\ kind \in {"decoder", "encoder"}
    /\ 0 < overlap
    /\ overlap <= blockSize

\* ceil(n / ov): the least count of hops of ov samples that cover n samples
CeilDiv(n, ov) ==
    CHOOSE h \in 0..n : h * ov >= n /\ (h = 0 \/ (h - 1) * ov < n)

\* the block of channel c the hop about to run reads: the signal up to its end,
\* zeros from there on
BlockPadded(c) ==
    LET startIdx == blockIdx * overlap
        block == InputBlock(input[c], startIdx, blockSize, numSamples)
    IN  /\ Len(block) = blockSize
        /\ \A i \in 0..(blockSize - 1) :
               block[i + 1] = IF startIdx + i < N THEN input[c][startIdx + i + 1] ELSE 0

\* what holds during and after a Process call
FramerSafe ==
    /\ pc # "panicked"
    /\ pc = "hop" =>
           /\ numSamples = N
           /\ numBlocks = CeilDiv(N, overlap)
           /\ blockIdx <= numBlocks
           /\ \A c \in 1..Len(output) : Len(output[c]) = N
           /\ hopWritten \subseteq 0..(N - 1)
           /\ \A n \in 1..Len(writes) : writes[n] > 0 => n <= blockIdx * overlap /\ n <= N
           /\ blockIdx < numBlocks => \A c \in 1..Len(input) : BlockPadded(c)
    /\ Accepted =>
           /\ blockIdx = CeilDiv(N, overlap)
           /\ \A c \in 1..Len(ret) : Len(ret[c]) = N

\* C30: for every decoder and encoder with 0 < overlap <= blockSize and every
\* input length N >= 0, Process does not panic, runs exactly ceil(N / overlap)
\* hops, one after the other, and returns; every block holds the signal up to
\* its end and zeros from there on, and no hop writes outside [0, N)
C30_FramerSafety ==
    /\ [](FramerConfig => FramerSafe)
    /\ [][(FramerConfig /\ pc = "hop" /\ pc' = "hop") =>
              (blockIdx < numBlocks /\ blockIdx' = blockIdx + 1)]_vars
    /\ [][(FramerConfig /\ pc = "hop" /\ pc' # "hop") =>
              (blockIdx = numBlocks /\ pc' = "returned")]_vars

\* a call returned after four hops of three samples over ten, the last one cut
\* short by the end of the signal
C30_Witness ==
    /\ FramerConfig
    /\ Accepted
    /\ blockSize = 4
    /\ overlap = 3
    /\ N = 10
    /\ blockIdx = 4
    /\ numBlocks = 4

====
